----------------------------- MODULE Io61Proofs -----------------------------
(***************************************************************************)
(* Proofs about the programs of pset3, which work with files and pipes:    *)
(* pipeexchange61 (PipeExchange) and the copying programs (CatFiles).      *)
(***************************************************************************)
EXTENDS PipeExchange, CatFiles, Iteration, FiniteSetTheorems

-----------------------------------------------------------------------------
(* pipeexchange61, for any table of phases and any capacities of the pipes:   *)
(* replies come back whole and in order, the two children deadlock only in a  *)
(* phase whose batch is beyond both pipes, and exit status 0 means that       *)
(* everything was exchanged.                                                  *)
(*                                                                            *)
(* The argument: each child is at a place of the batch, a message and a byte  *)
(* of it, and each pipe holds exactly the bytes between the place one child   *)
(* has written up to and the place the other has read up to.  The number of   *)
(* bytes in a pipe is then a difference of two places, and the rest is        *)
(* arithmetic.                                                                *)

-----------------------------------------------------------------------------
(* Places in a batch: the byte at offset c[2] of the message c[1].         *)

\* The place behind c, when messages have l bytes, and how many bytes precede c.
After(c, l) == IF c[2] + 1 < l THEN <<c[1], c[2] + 1>> ELSE <<c[1] + 1, 0>>
BytesBefore(c, l) == c[1] * l + c[2]

\* The byte there, when the identifiers of the batch begin at b.
ByteAt(b, c) == Byte(b + c[1], c[2])

\* A pipe holds the bytes of a batch from one place up to another.
Holds(q, from, to, l, b) ==
    /\ BytesBefore(to, l) = BytesBefore(from, l) + Len(q)
    /\ \E s \in [1 .. Len(q) + 1 -> Nat \X Nat] :
          /\ s[1] = from /\ s[Len(q) + 1] = to
          /\ \A j \in 1 .. Len(q) : s[j + 1] = After(s[j], l) /\ q[j] = ByteAt(b, s[j])

\* The number of bytes before a place grows by one from each place to the next.
LEMMA AfterIsNext ==
    ASSUME NEW l \in Nat \ {0}, NEW c \in Nat \X Nat, c[2] < l
    PROVE  /\ After(c, l) \in Nat \X Nat /\ After(c, l)[2] < l
           /\ BytesBefore(After(c, l), l) = BytesBefore(c, l) + 1
           /\ BytesBefore(c, l) \in Nat
<1>1. PICK i \in Nat, k \in Nat : c = <<i, k>>
  OBVIOUS
<1>2. i * l \in Nat /\ (i + 1) * l = i * l + l
  OBVIOUS
<1>3. CASE k + 1 < l
  BY <1>1, <1>2, <1>3 DEF After, BytesBefore
<1>4. CASE ~(k + 1 < l)
  <2>1. k + 1 = l /\ After(c, l) = <<i + 1, 0>>
    BY <1>1, <1>4 DEF After
  <2>2. BytesBefore(After(c, l), l) = (i + 1) * l + 0 /\ BytesBefore(c, l) = i * l + k
    BY <1>1, <2>1 DEF BytesBefore
  <2> QED
    BY <1>2, <2>1, <2>2
<1> QED
  BY <1>3, <1>4

\* A place in the batch has fewer bytes before it than the batch has.
LEMMA BeforeInside ==
    ASSUME NEW l \in Nat \ {0}, NEW n \in Nat, NEW i \in Nat, NEW k \in Nat, i < n, k < l
    PROVE  BytesBefore(<<i, k>>, l) < BytesBefore(<<n, 0>>, l)
<1>1. PICK d \in Nat : n = (i + 1) + d
  <2>1. n - (i + 1) \in Nat /\ n = (i + 1) + (n - (i + 1))
    OBVIOUS
  <2> QED
    BY <2>1
<1>2. n * l = i * l + l + d * l /\ d * l >= 0 /\ i * l \in Nat /\ d * l \in Nat
  BY <1>1
<1> QED
  BY <1>2 DEF BytesBefore

\* The number of bytes before a place is a number.
LEMMA BeforeIsNat ==
    ASSUME NEW l \in Nat, NEW c \in Nat \X Nat
    PROVE  BytesBefore(c, l) \in Nat
<1>1. PICK i \in Nat, k \in Nat : c[1] = i /\ c[2] = k
  OBVIOUS
<1>2. i * l \in Nat /\ BytesBefore(c, l) = i * l + k
  BY <1>1 DEF BytesBefore
<1> QED
  BY <1>2

\* An empty pipe holds what lies between a place and itself.
LEMMA HoldsNothing ==
    ASSUME NEW l \in Nat, NEW b, NEW c \in Nat \X Nat
    PROVE  Holds(<< >>, c, c, l, b)
<1>1. BytesBefore(c, l) \in Nat /\ Len(<< >>) = 0
  BY BeforeIsNat
<1> DEFINE s == [j \in 1 .. 1 |-> c]
<1>2. /\ s \in [1 .. 0 + 1 -> Nat \X Nat] /\ s[1] = c /\ s[0 + 1] = c
      /\ \A j \in 1 .. 0 : s[j + 1] = After(s[j], l) /\ << >>[j] = ByteAt(b, s[j])
  OBVIOUS
<1> HIDE DEF s
<1> QED
  BY <1>1, <1>2 DEF Holds

\* A pipe is empty if and only if its ends are at the same place.
LEMMA HoldsClosed ==
    ASSUME NEW l \in Nat, NEW b, NEW q \in Seq(Nat),
           NEW from \in Nat \X Nat, NEW to \in Nat \X Nat, Holds(q, from, to, l, b)
    PROVE  q = << >> <=> from = to
<1>1. BytesBefore(from, l) \in Nat
  BY BeforeIsNat
<1>2. from = to => Len(q) = 0
  BY <1>1 DEF Holds
<1>3. q = << >> => from = to
  BY DEF Holds
<1> QED
  BY <1>2, <1>3

\* A byte written at the far end.
LEMMA HoldsMore ==
    ASSUME NEW l \in Nat \ {0}, NEW b \in Nat, NEW q \in Seq(Nat),
           NEW from \in Nat \X Nat, NEW to \in Nat \X Nat, to[2] < l, Holds(q, from, to, l, b)
    PROVE  /\ Append(q, ByteAt(b, to)) \in Seq(Nat)
           /\ Holds(Append(q, ByteAt(b, to)), from, After(to, l), l, b)
<1>1. ByteAt(b, to) \in Nat
  BY DEF ByteAt, Byte
<1>2. PICK r : r = Append(q, ByteAt(b, to))
  OBVIOUS
<1>3. /\ r \in Seq(Nat) /\ Len(r) = Len(q) + 1 /\ Len(q) \in Nat
      /\ \A j \in 1 .. Len(q) : r[j] = q[j]
      /\ r[Len(q) + 1] = ByteAt(b, to)
  BY <1>1, <1>2
<1>4. PICK s \in [1 .. Len(q) + 1 -> Nat \X Nat] :
          /\ s[1] = from /\ s[Len(q) + 1] = to
          /\ \A j \in 1 .. Len(q) : s[j + 1] = After(s[j], l) /\ q[j] = ByteAt(b, s[j])
  BY DEF Holds
<1>5. After(to, l) \in Nat \X Nat /\ BytesBefore(After(to, l), l) = BytesBefore(to, l) + 1
      /\ BytesBefore(to, l) \in Nat
  BY AfterIsNext
<1> DEFINE t == [j \in 1 .. Len(q) + 2 |-> IF j = Len(q) + 2 THEN After(to, l) ELSE s[j]]
<1>6. t \in [1 .. Len(r) + 1 -> Nat \X Nat]
  <2>1. \A j \in 1 .. Len(q) + 2 : j # Len(q) + 2 => j \in 1 .. Len(q) + 1
    BY <1>3
  <2>2. Len(r) + 1 = Len(q) + 2
    BY <1>3
  <2> QED
    BY <1>5, <2>1, <2>2
<1>7. t[1] = from /\ t[Len(r) + 1] = After(to, l)
  BY <1>3, <1>4
<1>8. ASSUME NEW j \in 1 .. Len(r)
      PROVE  t[j + 1] = After(t[j], l) /\ r[j] = ByteAt(b, t[j])
  <2>1. CASE j \in 1 .. Len(q)
    <3>1. t[j] = s[j] /\ t[j + 1] = s[j + 1]
      <4>1. /\ j \in 1 .. Len(q) + 2 /\ j # Len(q) + 2
            /\ j + 1 \in 1 .. Len(q) + 2 /\ j + 1 # Len(q) + 2
        <5>1. PICK n \in Nat : n = Len(q)
          BY <1>3
        <5> QED
          BY <2>1, <5>1
      <4>2. \A n \in 1 .. Len(q) + 2 : n # Len(q) + 2 => t[n] = s[n]
        OBVIOUS
      <4> QED
        BY <4>1, <4>2, Zenon
    <3> QED
      BY <1>3, <1>4, <2>1, <3>1
  <2>2. CASE j = Len(q) + 1
    BY <1>3, <1>4, <2>2
  <2> QED
    BY <1>3, <2>1, <2>2
<1>9. BytesBefore(After(to, l), l) = BytesBefore(from, l) + Len(r)
  <2>1. BytesBefore(to, l) = BytesBefore(from, l) + Len(q)
    BY DEF Holds
  <2>2. BytesBefore(from, l) \in Int
    BY BeforeIsNat
  <2> QED
    BY <1>3, <1>5, <2>1, <2>2
<1> HIDE DEF t
<1>10. Holds(r, from, After(to, l), l, b)
  BY <1>6, <1>7, <1>8, <1>9 DEF Holds
<1> QED
  BY <1>2, <1>3, <1>10

\* A byte read at the near end.
LEMMA HoldsLess ==
    ASSUME NEW l \in Nat \ {0}, NEW b \in Nat, NEW q \in Seq(Nat), q # << >>,
           NEW from \in Nat \X Nat, NEW to \in Nat \X Nat, from[2] < l, Holds(q, from, to, l, b)
    PROVE  /\ Head(q) = ByteAt(b, from) /\ Tail(q) \in Seq(Nat)
           /\ Holds(Tail(q), After(from, l), to, l, b)
<1>1. PICK r : r = Tail(q)
  OBVIOUS
<1>2. /\ r \in Seq(Nat) /\ Len(r) = Len(q) - 1 /\ Len(q) \in Nat /\ Len(q) >= 1
      /\ \A j \in 1 .. Len(r) : r[j] = q[j + 1]
      /\ Head(q) = q[1]
  BY <1>1
<1>3. PICK s \in [1 .. Len(q) + 1 -> Nat \X Nat] :
          /\ s[1] = from /\ s[Len(q) + 1] = to
          /\ \A j \in 1 .. Len(q) : s[j + 1] = After(s[j], l) /\ q[j] = ByteAt(b, s[j])
  BY DEF Holds
<1>4. s[2] = After(from, l) /\ Head(q) = ByteAt(b, from)
  BY <1>2, <1>3
<1>5. BytesBefore(After(from, l), l) = BytesBefore(from, l) + 1 /\ BytesBefore(from, l) \in Nat
  BY AfterIsNext
<1> DEFINE t == [j \in 1 .. Len(q) |-> s[j + 1]]
<1>6. t \in [1 .. Len(r) + 1 -> Nat \X Nat]
  <2>1. \A j \in 1 .. Len(q) : j + 1 \in 1 .. Len(q) + 1
    BY <1>2
  <2>2. Len(r) + 1 = Len(q)
    BY <1>2
  <2> QED
    BY <2>1, <2>2
<1>7. t[1] = After(from, l) /\ t[Len(r) + 1] = to
  BY <1>2, <1>3, <1>4
<1>8. ASSUME NEW j \in 1 .. Len(r)
      PROVE  t[j + 1] = After(t[j], l) /\ r[j] = ByteAt(b, t[j])
  <2>1. j \in 1 .. Len(q) /\ j + 1 \in 1 .. Len(q)
    BY <1>2
  <2> QED
    BY <1>2, <1>3, <2>1
<1>9. BytesBefore(to, l) = BytesBefore(After(from, l), l) + Len(r)
  <2>1. BytesBefore(to, l) = BytesBefore(from, l) + Len(q)
    BY DEF Holds
  <2> QED
    BY <1>2, <1>5, <2>1
<1> HIDE DEF t
<1>10. Holds(r, After(from, l), to, l, b)
  BY <1>6, <1>7, <1>8, <1>9 DEF Holds
<1> QED
  BY <1>1, <1>2, <1>4, <1>10

-----------------------------------------------------------------------------
(* The agreement of the two children, r the requester and p the responder. *)

PCs == {"unborn", "start", "read", "write", "done"}
Children == [pc : PCs \cup Ended, phase : 1 .. NumPhases, i : Nat, k : Nat, id : Nat,
             buf : Nat, replies : Nat]

\* How far the requester is with its requests and with the replies, and the
\* first identifier of its batch.
WriteCursor(r) == IF r.pc = "read" THEN <<Message(r).batch, 0>> ELSE <<r.i, r.k>>
ReplyCursor(r) == IF r.pc = "read" THEN <<r.i, r.k>> ELSE <<0, 0>>
First(r) == IF r.pc = "read" THEN r.replies - r.i ELSE r.replies

\* The responder is through with the requester's phase; how far it is in it.
Through(r, p) == p.phase = r.phase + 1 \/ (p.pc = "done" /\ r.pc # "done")
RequestCursor(r, p) ==
    IF Through(r, p) THEN <<Message(r).batch, 0>>
    ELSE IF p.pc = "write" THEN <<p.i + 1, 0>> ELSE <<p.i, p.k>>
AnswerCursor(r, p) ==
    IF Through(r, p) THEN <<Message(r).batch, 0>>
    ELSE IF p.pc = "write" THEN <<p.i, p.k>> ELSE <<p.i, 0>>

Idle(c) == c.i = 0 /\ c.k = 0

\* What each child knows by itself.
Requesting(r) ==
    /\ r.pc \in PCs
    /\ r.pc \in {"unborn", "start"} => Idle(r) /\ r.phase = 1
    /\ r.pc = "write" => r.i < Message(r).batch /\ r.k < Message(r).request
    /\ r.pc = "read" => /\ r.i < Message(r).batch /\ r.k < Message(r).response
                        /\ r.i <= r.replies /\ (r.k > 0 => r.buf = r.replies)
    /\ r.pc = "done" => Idle(r) /\ r.phase = NumPhases
    /\ r.id = First(r) + WriteCursor(r)[1]
Responding(p) ==
    /\ p.pc \in PCs
    /\ p.pc \in {"unborn", "start"} => Idle(p) /\ p.phase = 1
    /\ p.pc = "write" => p.i < Message(p).batch /\ p.k < Message(p).response
    /\ p.pc = "read" => p.i < Message(p).batch /\ p.k < Message(p).request
    /\ p.pc = "done" => Idle(p) /\ p.phase = NumPhases

\* How their phases go together, and what the responder holds.
InPhase(r, p) ==
    /\ p.phase \in {r.phase, r.phase + 1}
    /\ r.pc = "done" => p.pc = "done"
    /\ p.pc = "done" => r.phase = NumPhases
    /\ Through(r, p) => r.pc = "read" /\ p.pc \in {"read", "done"} /\ Idle(p)
    /\ ~Through(r, p) /\ (p.pc = "write" \/ (p.pc = "read" /\ p.k > 0)) =>
          p.buf = First(r) + p.i

\* The pipes q and a hold what one child has written and the other has not read.
Between(r, p, q, a) ==
    /\ Holds(q, RequestCursor(r, p), WriteCursor(r), Message(r).request, First(r))
    /\ Holds(a, ReplyCursor(r), AnswerCursor(r, p), Message(r).response, First(r))

Agree(r, p, q, a) == Requesting(r) /\ Responding(p) /\ InPhase(r, p) /\ Between(r, p, q, a)

\* There is a phase, and the phases of the children are phases.
LEMMA PhasesKnown ==
    /\ NumPhases \in Nat /\ NumPhases >= 1
    /\ \A c \in Children : c.phase \in 1 .. NumPhases
<1>1. NumPhases \in Nat /\ NumPhases >= 1
  <2>1. PICK S : S = [batch : Nat \ {0}, request : Nat \ {0}, response : Nat \ {0}]
    OBVIOUS
  <2>2. Phases \in Seq(S) /\ Phases # << >>
    BY <2>1, PhasesAssumption
  <2> QED
    BY <2>2 DEF NumPhases
<1> QED
  BY <1>1 DEF Children

\* The sizes of the messages of a phase.
LEMMA MessageSizes ==
    ASSUME NEW c \in Children
    PROVE  /\ Message(c).batch \in Nat \ {0} /\ Message(c).request \in Nat \ {0}
           /\ Message(c).response \in Nat \ {0}
<1>1. c.phase \in 1 .. Len(Phases)
  BY DEF Children, NumPhases
<1>2. PICK S : S = [batch : Nat \ {0}, request : Nat \ {0}, response : Nat \ {0}]
  OBVIOUS
<1>3. Phases \in Seq(S)
  BY <1>2, PhasesAssumption
<1>4. Message(c) \in S
  BY <1>1, <1>3 DEF Message
<1> QED
  BY <1>2, <1>4

\* What the changes to a child change.
LEMMA NextByteIs ==
    ASSUME NEW c \in Children
    PROVE  /\ NextByte(c) \in Children
           /\ NextByte(c).pc = c.pc /\ NextByte(c).phase = c.phase /\ NextByte(c).i = c.i
           /\ NextByte(c).k = c.k + 1 /\ NextByte(c).id = c.id /\ NextByte(c).buf = c.buf
           /\ NextByte(c).replies = c.replies
<1>1. NextByte(c) \in Children
  BY DEF Children, NextByte
<1> QED
  BY <1>1 DEF Children, NextByte

\* The next message of the batch.
LEMMA NextMessageIs ==
    ASSUME NEW c \in Children
    PROVE  /\ NextMessage(c) \in Children
           /\ NextMessage(c).pc = c.pc /\ NextMessage(c).phase = c.phase
           /\ NextMessage(c).i = c.i + 1 /\ NextMessage(c).k = 0 /\ NextMessage(c).id = c.id
           /\ NextMessage(c).buf = c.buf /\ NextMessage(c).replies = c.replies
<1>1. NextMessage(c) \in Children
  <2>0. PICK n : n = c.i + 1
    OBVIOUS
  <2>a. NextMessage(c) = [c EXCEPT !.k = 0, !.i = n]
    BY <2>0 DEF Children, NextMessage
  <2>b. n \in Nat
    BY <2>0 DEF Children
  <2>1. NextMessage(c) = [pc |-> c.pc, phase |-> c.phase, i |-> n, k |-> 0, id |-> c.id,
                          buf |-> c.buf, replies |-> c.replies]
    BY <2>a DEF Children
  <2>2. /\ c.pc \in PCs \cup Ended /\ c.phase \in 1 .. NumPhases /\ n \in Nat
        /\ c.id \in Nat /\ c.buf \in Nat /\ c.replies \in Nat
    BY <2>b DEF Children
  <2> QED
    BY <2>1, <2>2 DEF Children
<1> QED
  BY <1>1 DEF Children, NextMessage

\* The next phase, or the end after the last.
LEMMA NextPhaseIs ==
    ASSUME NEW c \in Children, NEW goal \in PCs
    PROVE  /\ NextPhase(c, goal) \in Children
           /\ NextPhase(c, goal).pc = IF c.phase = NumPhases THEN "done" ELSE goal
           /\ NextPhase(c, goal).phase = IF c.phase = NumPhases THEN NumPhases ELSE c.phase + 1
           /\ NextPhase(c, goal).i = 0 /\ NextPhase(c, goal).k = 0
           /\ NextPhase(c, goal).id = c.id /\ NextPhase(c, goal).buf = c.buf
           /\ NextPhase(c, goal).replies = c.replies
<1>1. PICK ph, at : /\ ph = (IF c.phase = NumPhases THEN NumPhases ELSE c.phase + 1)
                    /\ at = (IF c.phase = NumPhases THEN "done" ELSE goal)
  OBVIOUS
<1>2. ph \in 1 .. NumPhases
  <2>1. c.phase \in 1 .. NumPhases /\ NumPhases \in Nat
    BY PhasesAssumption DEF Children, NumPhases
  <2> QED
    BY <1>1, <2>1
<1>3. at \in PCs \cup Ended
  BY <1>1 DEF PCs
<1>4. NextPhase(c, goal) = [c EXCEPT !.k = 0, !.i = 0, !.phase = ph, !.pc = at]
  BY <1>1 DEF NextPhase, Children
<1>5. NextPhase(c, goal) \in Children
  <2>1. NextPhase(c, goal) = [pc |-> at, phase |-> ph, i |-> 0, k |-> 0, id |-> c.id,
                       buf |-> c.buf, replies |-> c.replies]
    BY <1>4 DEF Children
  <2>2. c.id \in Nat /\ c.buf \in Nat /\ c.replies \in Nat
    BY DEF Children
  <2> QED
    BY <1>2, <1>3, <2>1, <2>2 DEF Children
<1> QED
  BY <1>1, <1>4, <1>5 DEF Children

\* The next identifier.
LEMMA WithId ==
    ASSUME NEW c \in Children
    PROVE  LET d == [c EXCEPT !.id = @ + 1]
           IN  /\ d \in Children /\ d.id = c.id + 1
               /\ d.pc = c.pc /\ d.phase = c.phase /\ d.i = c.i /\ d.k = c.k /\ d.buf = c.buf
               /\ d.replies = c.replies
<1>1. [c EXCEPT !.id = @ + 1] \in Children
  BY DEF Children
<1> QED
  BY <1>1 DEF Children

\* One more reply read.
LEMMA WithReplies ==
    ASSUME NEW c \in Children, NEW e, e = [c EXCEPT !.replies = @ + 1]
    PROVE  /\ e \in Children /\ e.replies = c.replies + 1
           /\ e.pc = c.pc /\ e.phase = c.phase /\ e.i = c.i /\ e.k = c.k /\ e.buf = c.buf
           /\ e.id = c.id
<1>1. e \in Children
  BY DEF Children
<1> QED
  BY <1>1 DEF Children

\* Another place in the program.
LEMMA WithPc ==
    ASSUME NEW c \in Children, NEW goal \in PCs \cup Ended
    PROVE  LET d == [c EXCEPT !.pc = goal]
           IN  /\ d \in Children /\ d.pc = goal
               /\ d.phase = c.phase /\ d.i = c.i /\ d.k = c.k /\ d.buf = c.buf
               /\ d.replies = c.replies /\ d.id = c.id
<1>1. [c EXCEPT !.pc = goal] \in Children
  BY DEF Children
<1> QED
  BY <1>1 DEF Children

\* The first byte of a message is kept.
LEMMA ReceivedIs ==
    ASSUME NEW c \in Children, NEW f, pipe[f] \in Seq(Nat), pipe[f] # << >>
    PROVE  LET d == Received(c, f)
           IN  /\ d \in Children /\ d.buf = IF c.k = 0 THEN Head(pipe[f]) ELSE c.buf
               /\ d.pc = c.pc /\ d.phase = c.phase /\ d.i = c.i /\ d.k = c.k
               /\ d.replies = c.replies /\ d.id = c.id
<1>1. Head(pipe[f]) \in Nat
  OBVIOUS
<1>2. Received(c, f) \in Children
  BY <1>1 DEF Children, Received
<1> QED
  BY <1>2 DEF Children, Received

\* After the last byte of a request.
LEMMA RequestedIs ==
    ASSUME NEW c \in Children
    PROVE  /\ Requested(c) \in Children /\ Requested(c).phase = c.phase /\ Requested(c).k = 0
           /\ Requested(c).id = c.id + 1 /\ Requested(c).buf = c.buf
           /\ Requested(c).replies = c.replies
           /\ c.i + 1 < Message(c).batch =>
                 Requested(c).pc = c.pc /\ Requested(c).i = c.i + 1
           /\ ~(c.i + 1 < Message(c).batch) =>
                 Requested(c).pc = "read" /\ Requested(c).i = 0
<1>1. CASE c.i + 1 < Message(c).batch
  <2>1. Requested(c) = [NextMessage(c) EXCEPT !.id = @ + 1]
    BY <1>1 DEF Requested
  <2> QED
    BY <1>1, <2>1, NextMessageIs, WithId
<1>2. CASE ~(c.i + 1 < Message(c).batch)
  <2>1. Requested(c) = [c EXCEPT !.k = 0, !.i = 0, !.id = @ + 1, !.pc = "read"]
    BY <1>2 DEF Requested
  <2>2. Requested(c) \in Children
    <3>1. PICK n : n = c.id + 1
      OBVIOUS
    <3>2. n \in Nat
      BY <3>1 DEF Children
    <3>3. Requested(c) = [pc |-> "read", phase |-> c.phase, i |-> 0, k |-> 0, id |-> n,
                       buf |-> c.buf, replies |-> c.replies]
      BY <2>1, <3>1 DEF Children
    <3>4. c.phase \in 1 .. NumPhases /\ c.buf \in Nat /\ c.replies \in Nat
      BY DEF Children
    <3> QED
      BY <3>2, <3>3, <3>4 DEF Children, PCs
  <2> QED
    BY <1>2, <2>1, <2>2 DEF Children
<1> QED
  BY <1>1, <1>2

\* The places and the identifier are numbers.
LEMMA CursorsKnown ==
    ASSUME NEW r \in Children, NEW p \in Children, Requesting(r)
    PROVE  /\ WriteCursor(r) \in Nat \X Nat /\ ReplyCursor(r) \in Nat \X Nat
           /\ RequestCursor(r, p) \in Nat \X Nat /\ AnswerCursor(r, p) \in Nat \X Nat
           /\ First(r) \in Nat
<1>1. Message(r).batch \in Nat
  BY MessageSizes
<1>2. /\ r.i \in Nat /\ r.k \in Nat /\ p.i \in Nat /\ p.k \in Nat /\ p.i + 1 \in Nat
      /\ r.replies \in Nat /\ 0 \in Nat
  BY DEF Children
<1>3. WriteCursor(r) \in Nat \X Nat /\ ReplyCursor(r) \in Nat \X Nat
  BY <1>1, <1>2 DEF WriteCursor, ReplyCursor
<1>4. RequestCursor(r, p) \in Nat \X Nat /\ AnswerCursor(r, p) \in Nat \X Nat
  BY <1>1, <1>2 DEF RequestCursor, AnswerCursor
<1>5. First(r) \in Nat
  BY <1>2 DEF First, Requesting
<1> QED
  BY <1>3, <1>4, <1>5

\* A byte of a request is written.
LEMMA AgreeRequested ==
    ASSUME NEW r \in Children, NEW p \in Children, NEW q \in Seq(Nat), NEW a \in Seq(Nat),
           Agree(r, p, q, a), r.pc = "write",
           NEW r2, r2 = IF r.k + 1 < Message(r).request THEN NextByte(r) ELSE Requested(r)
    PROVE  /\ r2 \in Children /\ Append(q, Byte(r.id, r.k)) \in Seq(Nat)
           /\ r2.pc \in {"write", "read"} /\ r2.phase = r.phase
           /\ Agree(r2, p, Append(q, Byte(r.id, r.k)), a)
<1>0. PICK m : m = Message(r)
  OBVIOUS
<1>1. /\ m.batch \in Nat \ {0} /\ m.request \in Nat \ {0} /\ m.response \in Nat \ {0}
      /\ r.i \in Nat /\ r.k \in Nat /\ r.id \in Nat /\ r.replies \in Nat /\ r.buf \in Nat
      /\ r.phase \in 1 .. NumPhases
      /\ r.i < m.batch /\ r.k < m.request
      /\ First(r) = r.replies /\ r.id = r.replies + r.i
      /\ WriteCursor(r) = <<r.i, r.k>> /\ ReplyCursor(r) = <<0, 0>>
  BY <1>0, MessageSizes DEF Children, Agree, Requesting, First, WriteCursor, ReplyCursor
<1>2. ~Through(r, p) /\ p.pc # "done" /\ p.phase = r.phase
  BY DEF Agree, InPhase, Through
<1>3. /\ r2 \in Children /\ r2.pc \in {"write", "read"} /\ r2.phase = r.phase
      /\ Requesting(r2) /\ First(r2) = First(r) /\ ReplyCursor(r2) = ReplyCursor(r)
      /\ WriteCursor(r2) = After(WriteCursor(r), m.request)
  <2>1. CASE r.k + 1 < m.request
    <3>1. r2 = NextByte(r)
      BY <1>0, <2>1
    <3>2. /\ r2 \in Children /\ r2.pc = "write" /\ r2.phase = r.phase /\ r2.i = r.i
          /\ r2.k = r.k + 1 /\ r2.id = r.id /\ r2.replies = r.replies
      BY <3>1, NextByteIs
    <3>3. Message(r2) = m
      BY <1>0, <3>2 DEF Message
    <3>4. After(<<r.i, r.k>>, m.request) = <<r.i, r.k + 1>>
      BY <2>1 DEF After
    <3> QED
      BY <1>1, <2>1, <3>2, <3>3, <3>4 DEF Requesting, First, WriteCursor, ReplyCursor, PCs
  <2>2. CASE ~(r.k + 1 < m.request) /\ r.i + 1 < m.batch
    <3>1. r2 = Requested(r)
      BY <1>0, <2>2
    <3>2. /\ r2 \in Children /\ r2.pc = "write" /\ r2.phase = r.phase /\ r2.i = r.i + 1
          /\ r2.k = 0 /\ r2.id = r.id + 1 /\ r2.replies = r.replies
      BY <1>0, <2>2, <3>1, RequestedIs
    <3>3. Message(r2) = m
      BY <1>0, <3>2 DEF Message
    <3>4. After(<<r.i, r.k>>, m.request) = <<r.i + 1, 0>>
      BY <2>2 DEF After
    <3>5. First(r2) = First(r) /\ ReplyCursor(r2) = ReplyCursor(r)
      BY <1>1, <3>2 DEF First, ReplyCursor
    <3>6. WriteCursor(r2) = After(WriteCursor(r), m.request)
      BY <1>1, <3>2, <3>3, <3>4 DEF WriteCursor
    <3>7. r2.id = First(r2) + WriteCursor(r2)[1]
      <4>1. WriteCursor(r2)[1] = r.i + 1
        BY <1>1, <3>2, <3>3 DEF WriteCursor
      <4>2. r2.id = (r.replies + r.i) + 1 /\ First(r2) = r.replies
        BY <1>1, <3>2, <3>5
      <4>3. r.replies \in Nat /\ r.i \in Nat
        BY <1>1
      <4> QED
        BY <4>1, <4>2, <4>3
    <3>8. r2.i < Message(r2).batch /\ r2.k < Message(r2).request
      BY SMTT(30), <1>1, <2>2, <3>2, <3>3
    <3>9. Requesting(r2)
      BY <3>2, <3>7, <3>8 DEF Requesting, PCs
    <3> QED
      BY <3>2, <3>5, <3>6, <3>9
  <2>3. CASE ~(r.k + 1 < m.request) /\ ~(r.i + 1 < m.batch)
    <3>1. r2 = Requested(r)
      BY <1>0, <2>3
    <3>2. /\ r2 \in Children /\ r2.pc = "read" /\ r2.phase = r.phase /\ r2.i = 0
          /\ r2.k = 0 /\ r2.id = r.id + 1 /\ r2.replies = r.replies
      BY <1>0, <2>3, <3>1, RequestedIs
    <3>3. Message(r2) = m /\ r.i + 1 = m.batch
      BY SMTT(30), <1>0, <1>1, <2>3, <3>2 DEF Message
    <3>4. After(<<r.i, r.k>>, m.request) = <<m.batch, 0>>
      BY <2>3, <3>3 DEF After
    <3>5. First(r2) = First(r) /\ ReplyCursor(r2) = ReplyCursor(r)
      BY SMTT(30), <1>1, <3>2 DEF First, ReplyCursor
    <3>6. WriteCursor(r2) = After(WriteCursor(r), m.request)
      BY <1>1, <3>2, <3>3, <3>4 DEF WriteCursor
    <3>7. r2.id = First(r2) + WriteCursor(r2)[1]
      <4>1. WriteCursor(r2)[1] = r.i + 1
        BY <1>1, <3>2, <3>3 DEF WriteCursor
      <4>2. r2.id = (r.replies + r.i) + 1 /\ First(r2) = r.replies
        BY <1>1, <3>2, <3>5
      <4>3. r.replies \in Nat /\ r.i \in Nat
        BY <1>1
      <4> QED
        BY <4>1, <4>2, <4>3
    <3>8. r2.i < Message(r2).batch /\ r2.k < Message(r2).response /\ r2.i <= r2.replies /\ r2.k = 0
      <4>1. m.batch \in Nat \ {0} /\ m.response \in Nat \ {0} /\ r.replies \in Nat
        BY <1>1
      <4>2. /\ Message(r2).batch = m.batch /\ Message(r2).response = m.response
            /\ r2.i = 0 /\ r2.k = 0 /\ r2.replies = r.replies
        BY <3>2, <3>3
      <4> QED
        BY <4>1, <4>2
    <3>9. Requesting(r2)
      BY <3>2, <3>7, <3>8 DEF Requesting, PCs
    <3> QED
      BY <3>2, <3>5, <3>6, <3>9
  <2> QED
    BY <2>1, <2>2, <2>3
<1>4. ~Through(r2, p) /\ Message(r2) = m
  BY <1>0, <1>2, <1>3 DEF Through, Message
<1>5. InPhase(r2, p)
  BY <1>2, <1>3, <1>4 DEF Agree, InPhase
<1>6. /\ RequestCursor(r2, p) = RequestCursor(r, p) /\ AnswerCursor(r2, p) = AnswerCursor(r, p)
  BY <1>0, <1>2, <1>4 DEF RequestCursor, AnswerCursor
<1>7. Byte(r.id, r.k) = ByteAt(First(r), WriteCursor(r))
  BY <1>1 DEF ByteAt
<1>8. /\ Append(q, Byte(r.id, r.k)) \in Seq(Nat)
      /\ Holds(Append(q, Byte(r.id, r.k)), RequestCursor(r, p), After(WriteCursor(r), m.request),
               m.request, First(r))
  <2>1. WriteCursor(r)[2] < m.request
    BY <1>1
  <2>2. Holds(q, RequestCursor(r, p), WriteCursor(r), m.request, First(r))
    BY <1>0 DEF Agree, Between
  <2>3. WriteCursor(r) \in Nat \X Nat /\ RequestCursor(r, p) \in Nat \X Nat /\ First(r) \in Nat
    BY CursorsKnown DEF Agree
  <2> QED
    BY <1>1, <1>7, <2>1, <2>2, <2>3, HoldsMore
<1>9. Between(r2, p, Append(q, Byte(r.id, r.k)), a)
  BY <1>0, <1>3, <1>4, <1>6, <1>8 DEF Agree, Between
<1> QED
  BY <1>3, <1>5, <1>8, <1>9 DEF Agree

\* A byte of a request is read.
LEMMA AgreeFetched ==
    ASSUME NEW r \in Children, NEW p \in Children, NEW q \in Seq(Nat), NEW a \in Seq(Nat),
           Agree(r, p, q, a), p.pc = "read", q # << >>,
           NEW d \in Children, d.pc = p.pc, d.phase = p.phase, d.i = p.i, d.k = p.k,
           d.buf = IF p.k = 0 THEN Head(q) ELSE p.buf,
           NEW p2 \in Children, p2.phase = d.phase, p2.i = d.i, p2.buf = d.buf,
           d.k + 1 < Message(d).request => p2.pc = d.pc /\ p2.k = d.k + 1,
           ~(d.k + 1 < Message(d).request) => p2.pc = "write" /\ p2.k = 0
    PROVE  /\ Tail(q) \in Seq(Nat) /\ ~Through(r, p)
           /\ Agree(r, p2, Tail(q), a)
<1>0. PICK m : m = Message(r)
  OBVIOUS
<1>1. /\ m.batch \in Nat \ {0} /\ m.request \in Nat \ {0} /\ m.response \in Nat \ {0}
  BY <1>0, MessageSizes
<1>2. p.i \in Nat /\ p.k \in Nat
  BY DEF Children
<1>3. /\ WriteCursor(r) \in Nat \X Nat /\ RequestCursor(r, p) \in Nat \X Nat /\ First(r) \in Nat
      /\ Holds(q, RequestCursor(r, p), WriteCursor(r), m.request, First(r))
  BY <1>0, CursorsKnown DEF Agree, Between
<1>4. ~Through(r, p)
  <2> SUFFICES ASSUME Through(r, p) PROVE FALSE
    OBVIOUS
  <2>1. RequestCursor(r, p) = WriteCursor(r)
    BY DEF Agree, InPhase, RequestCursor, WriteCursor
  <2> QED
    BY <1>1, <1>3, <2>1, HoldsClosed
<1>5. p.phase = r.phase /\ Message(p) = m /\ Message(d) = m /\ Message(p2) = m
  BY <1>0, <1>4 DEF Agree, InPhase, Through, Message
<1>6. p.i < m.batch /\ p.k < m.request
  BY <1>5 DEF Agree, Responding
<1>7. RequestCursor(r, p) = <<p.i, p.k>> /\ AnswerCursor(r, p) = <<p.i, 0>>
  BY <1>4 DEF RequestCursor, AnswerCursor
<1>8. /\ Head(q) = ByteAt(First(r), <<p.i, p.k>>) /\ Tail(q) \in Seq(Nat)
      /\ Holds(Tail(q), After(<<p.i, p.k>>, m.request), WriteCursor(r), m.request, First(r))
  <2>1. <<p.i, p.k>>[2] < m.request /\ <<p.i, p.k>> \in Nat \X Nat
    BY <1>2, <1>6
  <2> QED
    BY SMTT(30), <1>1, <1>3, <1>7, <2>1, HoldsLess
<1>9. p2.buf = First(r) + p.i
  <2>1. CASE p.k = 0
    BY <1>8, <2>1 DEF ByteAt, Byte
  <2>2. CASE p.k # 0
    <3>1. p.k > 0
      BY <1>2, <2>2
    <3> QED
      BY <1>4, <2>2, <3>1 DEF Agree, InPhase
  <2> QED
    BY <2>1, <2>2
<1>10. /\ ~Through(r, p2) /\ p2.pc \in {"read", "write"}
       /\ p2.pc = "write" => p2.k = 0
       /\ p2.pc = "read" => p2.k = p.k + 1 /\ p.k + 1 < m.request
  BY <1>4, <1>5 DEF Through
<1>11. RequestCursor(r, p2) = After(<<p.i, p.k>>, m.request) /\ AnswerCursor(r, p2) = <<p.i, 0>>
  <2>1. CASE p.k + 1 < m.request
    BY <1>5, <1>10, <2>1 DEF RequestCursor, AnswerCursor, After
  <2>2. CASE ~(p.k + 1 < m.request)
    BY <1>5, <1>10, <2>2 DEF RequestCursor, AnswerCursor, After
  <2> QED
    BY <2>1, <2>2
<1>12. Responding(p2)
  <2>1. p2.i < Message(p2).batch
    BY <1>5, <1>6
  <2>2. p2.pc = "write" => p2.k < Message(p2).response
    BY <1>1, <1>5, <1>10
  <2>3. p2.pc = "read" => p2.k < Message(p2).request
    BY <1>1, <1>5, <1>10
  <2> QED
    BY <1>10, <2>1, <2>2, <2>3 DEF Responding, PCs
<1>13. InPhase(r, p2)
  BY <1>5, <1>9, <1>10 DEF Agree, InPhase, Through
<1>14. Between(r, p2, Tail(q), a)
  BY <1>0, <1>7, <1>8, <1>11 DEF Agree, Between
<1> QED
  BY <1>4, <1>8, <1>12, <1>13, <1>14 DEF Agree

\* A byte of a reply is written.
LEMMA AgreeAnswered ==
    ASSUME NEW r \in Children, NEW p \in Children, NEW q \in Seq(Nat), NEW a \in Seq(Nat),
           Agree(r, p, q, a), p.pc = "write",
           NEW p2, p2 = IF p.k + 1 < Message(p).response THEN NextByte(p) ELSE Answered(p)
    PROVE  /\ p2 \in Children /\ Append(a, Byte(p.buf, p.k)) \in Seq(Nat)
           /\ p2.pc \in {"write", "read", "done"}
           /\ Agree(r, p2, q, Append(a, Byte(p.buf, p.k)))
<1>0. PICK m : m = Message(r)
  OBVIOUS
<1>1. /\ m.batch \in Nat \ {0} /\ m.request \in Nat \ {0} /\ m.response \in Nat \ {0}
  BY <1>0, MessageSizes
<1>2. p.i \in Nat /\ p.k \in Nat
  BY DEF Children
<1>3. /\ ~Through(r, p) /\ p.phase = r.phase /\ Message(p) = m /\ p.buf = First(r) + p.i
  BY <1>0 DEF Agree, InPhase, Through, Message
<1>4. p.i < m.batch /\ p.k < m.response
  BY <1>3 DEF Agree, Responding
<1>5. RequestCursor(r, p) = <<p.i + 1, 0>> /\ AnswerCursor(r, p) = <<p.i, p.k>>
  BY <1>3 DEF RequestCursor, AnswerCursor
<1>6. /\ Append(a, Byte(p.buf, p.k)) \in Seq(Nat)
      /\ Holds(Append(a, Byte(p.buf, p.k)), ReplyCursor(r), After(<<p.i, p.k>>, m.response),
               m.response, First(r))
  <2>1. <<p.i, p.k>>[2] < m.response /\ <<p.i, p.k>> \in Nat \X Nat
    BY <1>2, <1>4
  <2>2. Byte(p.buf, p.k) = ByteAt(First(r), <<p.i, p.k>>)
    BY <1>3 DEF ByteAt
  <2>3. ReplyCursor(r) \in Nat \X Nat /\ First(r) \in Nat
    BY CursorsKnown DEF Agree
  <2>4. Holds(a, ReplyCursor(r), <<p.i, p.k>>, m.response, First(r))
    BY <1>0, <1>5 DEF Agree, Between
  <2> QED
    BY <1>1, <2>1, <2>2, <2>3, <2>4, HoldsMore
<1>7. /\ p2 \in Children /\ p2.pc \in {"write", "read", "done"}
      /\ Responding(p2) /\ InPhase(r, p2)
      /\ RequestCursor(r, p2) = RequestCursor(r, p)
      /\ AnswerCursor(r, p2) = After(<<p.i, p.k>>, m.response)
  <2>1. CASE p.k + 1 < m.response
    <3>1. p2 = NextByte(p)
      BY <1>3, <2>1
    <3>2. /\ p2 \in Children /\ p2.pc = "write" /\ p2.phase = p.phase /\ p2.i = p.i
          /\ p2.k = p.k + 1 /\ p2.buf = p.buf
      BY <3>1, NextByteIs
    <3>3. Message(p2) = m /\ ~Through(r, p2)
      BY <1>3, <3>2 DEF Message, Through
    <3>4. Responding(p2)
      BY <1>4, <2>1, <3>2, <3>3 DEF Responding, PCs
    <3>5. InPhase(r, p2)
      BY <1>3, <3>2, <3>3 DEF Agree, InPhase
    <3>6. /\ RequestCursor(r, p2) = RequestCursor(r, p)
          /\ AnswerCursor(r, p2) = After(<<p.i, p.k>>, m.response)
      BY <1>5, <2>1, <3>2, <3>3 DEF RequestCursor, AnswerCursor, After
    <3> QED
      BY <3>2, <3>4, <3>5, <3>6
  <2>2. CASE ~(p.k + 1 < m.response) /\ p.i + 1 < m.batch
    <3>1. p2 = [NextMessage(p) EXCEPT !.pc = "read"]
      BY <1>3, <2>2 DEF Answered
    <3>2. /\ p2 \in Children /\ p2.pc = "read" /\ p2.phase = p.phase /\ p2.i = p.i + 1
          /\ p2.k = 0
      <4>1. "read" \in PCs \cup Ended
        BY DEF PCs
      <4>2. PICK c : c = NextMessage(p)
        OBVIOUS
      <4>3. c \in Children /\ c.phase = p.phase /\ c.i = p.i + 1 /\ c.k = 0
        BY <4>2, NextMessageIs
      <4>4. p2 = [c EXCEPT !.pc = "read"]
        BY <3>1, <4>2
      <4>5. p2 \in Children
        BY <4>1, <4>3, <4>4 DEF Children
      <4> QED
        BY <4>3, <4>4, <4>5 DEF Children
    <3>3. Message(p2) = m /\ ~Through(r, p2)
      BY <1>3, <3>2 DEF Message, Through
    <3>4. Responding(p2)
      <4>1. p2.i < Message(p2).batch /\ p2.k < Message(p2).request
        BY <1>1, <2>2, <3>2, <3>3
      <4> QED
        BY <3>2, <4>1 DEF Responding, PCs
    <3>5. InPhase(r, p2)
      BY <1>3, <3>2, <3>3 DEF Agree, InPhase
    <3>6. /\ RequestCursor(r, p2) = RequestCursor(r, p)
          /\ AnswerCursor(r, p2) = After(<<p.i, p.k>>, m.response)
      BY <1>5, <2>2, <3>2, <3>3 DEF RequestCursor, AnswerCursor, After
    <3> QED
      BY <3>2, <3>4, <3>5, <3>6
  <2>3. CASE ~(p.k + 1 < m.response) /\ ~(p.i + 1 < m.batch)
    <3>1. p2 = NextPhase(p, "read")
      BY <1>3, <2>3 DEF Answered
    <3>2. /\ p2 \in Children /\ p2.i = 0 /\ p2.k = 0
          /\ p2.pc = IF p.phase = NumPhases THEN "done" ELSE "read"
          /\ p2.phase = IF p.phase = NumPhases THEN NumPhases ELSE p.phase + 1
      <4>1. "read" \in PCs
        BY DEF PCs
      <4> QED
        BY <3>1, <4>1, NextPhaseIs
    <3>3. p.i + 1 = m.batch
      BY <1>1, <1>2, <1>4, <2>3
    <3>4. r.pc = "read"
      <4>1. /\ WriteCursor(r) \in Nat \X Nat /\ First(r) \in Nat /\ Len(q) \in Nat
            /\ BytesBefore(WriteCursor(r), m.request) = BytesBefore(<<m.batch, 0>>, m.request) + Len(q)
        <5>1. WriteCursor(r) \in Nat \X Nat /\ First(r) \in Nat /\ Len(q) \in Nat
          BY CursorsKnown DEF Agree
        <5>2. Holds(q, <<m.batch, 0>>, WriteCursor(r), m.request, First(r))
          BY <1>0, <1>5, <3>3 DEF Agree, Between
        <5> QED
          BY <5>1, <5>2 DEF Holds
      <4>2. BytesBefore(<<m.batch, 0>>, m.request) \in Nat
        BY <1>1, BeforeIsNat
      <4>3. ASSUME r.i < m.batch, r.k < m.request, WriteCursor(r) = <<r.i, r.k>> PROVE FALSE
        <5>1. BytesBefore(<<r.i, r.k>>, m.request) < BytesBefore(<<m.batch, 0>>, m.request)
          <6>1. r.i \in Nat /\ r.k \in Nat
            BY DEF Children
          <6> QED
            BY <1>1, <4>3, <6>1, BeforeInside
        <5>2. BytesBefore(<<r.i, r.k>>, m.request) \in Nat
          <6>1. <<r.i, r.k>> \in Nat \X Nat
            BY DEF Children
          <6> QED
            BY <1>1, <6>1, BeforeIsNat
        <5> QED
          BY <4>1, <4>2, <4>3, <5>1, <5>2
      <4>4. r.pc # "write"
        BY <1>0, <4>3 DEF Agree, Requesting, WriteCursor
      <4>5. r.pc \notin {"unborn", "start"}
        <5> SUFFICES ASSUME r.pc \in {"unborn", "start"} PROVE FALSE
          OBVIOUS
        <5>1. r.i = 0 /\ r.k = 0 /\ WriteCursor(r) = <<r.i, r.k>>
          BY DEF Agree, Requesting, WriteCursor, Idle
        <5>2. 0 < m.batch /\ 0 < m.request
          BY <1>1
        <5> QED
          BY <4>3, <5>1, <5>2
      <4>6. r.pc # "done"
        BY DEF Agree, InPhase
      <4> QED
        BY <4>4, <4>5, <4>6 DEF Agree, Requesting, PCs
    <3>5. Through(r, p2)
      BY <1>3, <3>2, <3>4 DEF Through
    <3>6. Responding(p2)
      <4>1. CASE p.phase = NumPhases
        BY <3>2, <4>1 DEF Responding, PCs, Idle
      <4>2. CASE p.phase # NumPhases
        <5>1. p2.pc = "read" /\ p2.i < Message(p2).batch /\ p2.k < Message(p2).request
          <6>1. Message(p2).batch \in Nat \ {0} /\ Message(p2).request \in Nat \ {0}
            BY <3>2, MessageSizes
          <6> QED
            BY <3>2, <4>2, <6>1
        <5> QED
          BY <5>1 DEF Responding, PCs
      <4> QED
        BY <4>1, <4>2
    <3>7. InPhase(r, p2)
      BY <1>3, <3>2, <3>4, <3>5 DEF InPhase, Idle
    <3>8. /\ RequestCursor(r, p2) = RequestCursor(r, p)
          /\ AnswerCursor(r, p2) = After(<<p.i, p.k>>, m.response)
      BY <1>0, <1>5, <2>3, <3>3, <3>5 DEF RequestCursor, AnswerCursor, After
    <3> QED
      BY <3>2, <3>6, <3>7, <3>8
  <2> QED
    BY <2>1, <2>2, <2>3
<1>8. Between(r, p2, q, Append(a, Byte(p.buf, p.k)))
  BY <1>0, <1>6, <1>7 DEF Agree, Between
<1> QED
  BY <1>6, <1>7, <1>8 DEF Agree

\* A byte of a reply is read: the assertion holds, and the last reply of a batch
\* is behind the last answer, so that both children begin the next phase.
LEMMA AgreeReplied ==
    ASSUME NEW r \in Children, NEW p \in Children, NEW q \in Seq(Nat), NEW a \in Seq(Nat),
           Agree(r, p, q, a), r.pc = "read", a # << >>,
           NEW d \in Children, d.pc = r.pc, d.phase = r.phase, d.i = r.i, d.k = r.k,
           d.replies = r.replies, d.id = r.id, d.buf = IF r.k = 0 THEN Head(a) ELSE r.buf,
           NEW r2, r2 = IF d.k + 1 < Message(d).response THEN NextByte(d) ELSE Replied(d)
    PROVE  /\ r2 \in Children /\ Tail(a) \in Seq(Nat)
           /\ r2.pc \in {"read", "write", "done"}
           /\ r2.phase = r.phase \/ (r2.phase = r.phase + 1 /\ r2.pc = "write")
           /\ Agree(r2, p, q, Tail(a))
<1>0. PICK m : m = Message(r)
  OBVIOUS
<1>1. /\ m.batch \in Nat \ {0} /\ m.request \in Nat \ {0} /\ m.response \in Nat \ {0}
  BY <1>0, MessageSizes
<1>2. r.i \in Nat /\ r.k \in Nat /\ r.replies \in Nat /\ r.id \in Nat
  BY DEF Children
<1>3. /\ Message(d) = m /\ First(r) = r.replies - r.i
      /\ WriteCursor(r) = <<m.batch, 0>> /\ ReplyCursor(r) = <<r.i, r.k>>
      /\ r.i < m.batch /\ r.k < m.response /\ r.i <= r.replies
      /\ r.k > 0 => r.buf = r.replies
      /\ r.id = First(r) + m.batch
  BY <1>0 DEF Agree, Requesting, First, WriteCursor, ReplyCursor, Message
<1>4. /\ AnswerCursor(r, p) \in Nat \X Nat /\ First(r) \in Nat /\ <<r.i, r.k>> \in Nat \X Nat
      /\ Holds(a, <<r.i, r.k>>, AnswerCursor(r, p), m.response, First(r))
  BY <1>0, <1>2, <1>3, CursorsKnown DEF Agree, Between
<1>5. /\ Head(a) = ByteAt(First(r), <<r.i, r.k>>) /\ Tail(a) \in Seq(Nat)
      /\ Holds(Tail(a), After(<<r.i, r.k>>, m.response), AnswerCursor(r, p), m.response, First(r))
  <2>1. <<r.i, r.k>>[2] < m.response
    BY <1>3
  <2> QED
    BY <1>1, <1>4, <2>1, HoldsLess
<1>6. d.buf = d.replies
  <2>1. CASE r.k = 0
    <3>1. Head(a) = First(r) + r.i
      BY <1>5, <2>1 DEF ByteAt, Byte
    <3> QED
      BY <1>2, <1>3, <2>1, <3>1
  <2>2. CASE r.k # 0
    BY <1>2, <1>3, <2>2
  <2> QED
    BY <2>1, <2>2
<1>7. CASE r.k + 1 < m.response
  <2>1. r2 = NextByte(d)
    BY <1>3, <1>7
  <2>2. /\ r2 \in Children /\ r2.pc = "read" /\ r2.phase = r.phase /\ r2.i = r.i /\ r2.k = r.k + 1
        /\ r2.id = r.id /\ r2.buf = r.replies /\ r2.replies = r.replies
    BY <1>6, <2>1, NextByteIs
  <2>3. Message(r2) = m /\ Through(r2, p) = Through(r, p)
    BY <1>0, <2>2 DEF Message, Through
  <2>4. First(r2) = First(r) /\ WriteCursor(r2) = WriteCursor(r)
    BY <1>0, <2>2, <2>3 DEF First, WriteCursor
  <2>5. ReplyCursor(r2) = After(<<r.i, r.k>>, m.response)
    BY <1>7, <2>2 DEF ReplyCursor, After
  <2>6. Requesting(r2)
    BY <1>3, <1>7, <2>2, <2>3, <2>4 DEF Requesting, PCs
  <2>7. InPhase(r2, p)
    BY <2>2, <2>3, <2>4 DEF Agree, InPhase
  <2>8. RequestCursor(r2, p) = RequestCursor(r, p) /\ AnswerCursor(r2, p) = AnswerCursor(r, p)
    BY <1>0, <2>3 DEF RequestCursor, AnswerCursor
  <2>9. Between(r2, p, q, Tail(a))
    BY <1>0, <1>5, <2>3, <2>4, <2>5, <2>8 DEF Agree, Between
  <2> QED
    BY <1>5, <2>2, <2>6, <2>7, <2>9 DEF Agree
<1>8. CASE ~(r.k + 1 < m.response) /\ r.i + 1 < m.batch
  <2>1. r2 = [NextMessage(d) EXCEPT !.replies = @ + 1]
    BY <1>3, <1>6, <1>8 DEF Replied
  <2>2. /\ r2 \in Children /\ r2.pc = "read" /\ r2.phase = r.phase /\ r2.i = r.i + 1 /\ r2.k = 0
        /\ r2.id = r.id /\ r2.replies = r.replies + 1
    <3>1. PICK c : c = NextMessage(d)
      OBVIOUS
    <3>2. /\ c \in Children /\ c.pc = "read" /\ c.phase = r.phase /\ c.i = r.i + 1 /\ c.k = 0
          /\ c.id = r.id /\ c.replies = r.replies
      BY <3>1, NextMessageIs
    <3>3. r2 = [c EXCEPT !.replies = @ + 1]
      BY <2>1, <3>1
    <3> QED
      BY <3>2, <3>3, WithReplies
  <2>3. Message(r2) = m /\ Through(r2, p) = Through(r, p)
    BY <1>0, <2>2 DEF Message, Through
  <2>4. First(r2) = First(r) /\ WriteCursor(r2) = WriteCursor(r)
    <3>1. First(r2) = (r.replies + 1) - (r.i + 1)
      BY <2>2 DEF First
    <3>2. First(r2) = First(r)
      BY SMTT(30), <1>2, <1>3, <3>1
    <3> QED
      BY <1>0, <2>2, <2>3, <3>2 DEF WriteCursor
  <2>5. ReplyCursor(r2) = After(<<r.i, r.k>>, m.response)
    BY <1>8, <2>2 DEF ReplyCursor, After
  <2>6. Requesting(r2)
    <3>1. r2.i < Message(r2).batch /\ r2.k < Message(r2).response /\ r2.k = 0
      BY <1>1, <1>8, <2>2, <2>3
    <3>2. r2.i <= r2.replies
      BY <1>2, <1>3, <2>2
    <3> QED
      BY <1>3, <2>2, <2>4, <3>1, <3>2 DEF Requesting, PCs
  <2>7. InPhase(r2, p)
    BY <2>2, <2>3, <2>4 DEF Agree, InPhase
  <2>8. RequestCursor(r2, p) = RequestCursor(r, p) /\ AnswerCursor(r2, p) = AnswerCursor(r, p)
    BY <1>0, <2>3 DEF RequestCursor, AnswerCursor
  <2>9. Between(r2, p, q, Tail(a))
    BY <1>0, <1>5, <2>3, <2>4, <2>5, <2>8 DEF Agree, Between
  <2> QED
    BY <1>5, <2>2, <2>6, <2>7, <2>9 DEF Agree
<1>9. CASE ~(r.k + 1 < m.response) /\ ~(r.i + 1 < m.batch)
  <2>1. r.i + 1 = m.batch
    BY <1>1, <1>2, <1>3, <1>9
  <2>2. After(<<r.i, r.k>>, m.response) = <<m.batch, 0>>
    BY <1>9, <2>1 DEF After
  <2>3. Through(r, p)
    <3> SUFFICES ASSUME ~Through(r, p) PROVE FALSE
      OBVIOUS
    <3>1. p.phase = r.phase /\ Message(p) = m /\ p.i \in Nat /\ p.k \in Nat
      BY <1>0 DEF Agree, InPhase, Through, Message, Children
    <3>2. PICK j \in Nat, k \in Nat : AnswerCursor(r, p) = <<j, k>> /\ j < m.batch /\ k < m.response
      <4>1. CASE p.pc = "write"
        <5>1. AnswerCursor(r, p) = <<p.i, p.k>> /\ p.i < m.batch /\ p.k < m.response
          BY <3>1, <4>1 DEF AnswerCursor, Agree, Responding
        <5> QED
          BY <3>1, <5>1
      <4>2. CASE p.pc # "write"
        <5>1. AnswerCursor(r, p) = <<p.i, 0>>
          BY <4>2 DEF AnswerCursor
        <5>2. p.pc # "done"
          BY DEF Through
        <5>3. p.i < m.batch
          <6>1. CASE p.pc = "read"
            BY <3>1, <6>1 DEF Agree, Responding
          <6>2. CASE p.pc \in {"unborn", "start"}
            BY <1>1, <6>2 DEF Agree, Responding, Idle
          <6> QED
            BY <4>2, <5>2, <6>1, <6>2 DEF Agree, Responding, PCs
        <5>4. 0 < m.response /\ 0 \in Nat
          BY <1>1
        <5> QED
          BY <3>1, <5>1, <5>3, <5>4
      <4> QED
        BY <4>1, <4>2
    <3>3. BytesBefore(<<j, k>>, m.response) < BytesBefore(<<m.batch, 0>>, m.response)
      BY <1>1, <3>2, BeforeInside
    <3>4. BytesBefore(<<j, k>>, m.response) \in Nat /\ BytesBefore(<<m.batch, 0>>, m.response) \in Nat
      <4>1. <<j, k>> \in Nat \X Nat /\ <<m.batch, 0>> \in Nat \X Nat /\ m.response \in Nat
        BY <1>1
      <4> QED
        BY <4>1, BeforeIsNat
    <3>5. /\ BytesBefore(<<j, k>>, m.response) = BytesBefore(<<m.batch, 0>>, m.response) + Len(Tail(a))
          /\ Len(Tail(a)) \in Nat
      <4>1. PICK t : t = Tail(a)
        OBVIOUS
      <4>2. t \in Seq(Nat) /\ Holds(t, <<m.batch, 0>>, <<j, k>>, m.response, First(r))
        BY <1>5, <2>2, <3>2, <4>1
      <4> QED
        BY <4>1, <4>2 DEF Holds
    <3> QED
      BY <3>3, <3>4, <3>5
  <2>4. q = << >> /\ Tail(a) = << >>
    <3>1. RequestCursor(r, p) = <<m.batch, 0>> /\ AnswerCursor(r, p) = <<m.batch, 0>>
      BY <1>0, <2>3 DEF RequestCursor, AnswerCursor
    <3>2. Holds(q, <<m.batch, 0>>, <<m.batch, 0>>, m.request, First(r))
      BY <1>0, <1>3, <3>1 DEF Agree, Between
    <3>3. Holds(Tail(a), <<m.batch, 0>>, <<m.batch, 0>>, m.response, First(r))
      BY <1>5, <2>2, <3>1
    <3>4. <<m.batch, 0>> \in Nat \X Nat /\ m.response \in Nat /\ m.request \in Nat
      BY <1>1
    <3>5. q = << >>
      <4>1. PICK c : c = <<m.batch, 0>>
        OBVIOUS
      <4>2. c \in Nat \X Nat /\ Holds(q, c, c, m.request, First(r))
        BY <3>2, <3>4, <4>1
      <4> QED
        BY <3>4, <4>2, HoldsClosed
    <3>6. Tail(a) = << >>
      <4>1. PICK c, t : c = <<m.batch, 0>> /\ t = Tail(a)
        OBVIOUS
      <4>2. c \in Nat \X Nat /\ t \in Seq(Nat) /\ Holds(t, c, c, m.response, First(r))
        BY <1>5, <3>3, <3>4, <4>1
      <4>3. t = << >>
        BY <3>4, <4>2, HoldsClosed
      <4> QED
        BY <4>1, <4>3
    <3> QED
      BY <3>5, <3>6
  <2>5. /\ r2 \in Children /\ r2.i = 0 /\ r2.k = 0 /\ r2.id = r.id /\ r2.replies = r.replies + 1
        /\ r2.pc = IF r.phase = NumPhases THEN "done" ELSE "write"
        /\ r2.phase = IF r.phase = NumPhases THEN NumPhases ELSE r.phase + 1
    <3>1. PICK c : c = NextPhase(d, "write")
      OBVIOUS
    <3>2. "write" \in PCs
      BY DEF PCs
    <3>3. /\ c \in Children /\ c.i = 0 /\ c.k = 0 /\ c.id = r.id /\ c.replies = r.replies
          /\ c.pc = IF r.phase = NumPhases THEN "done" ELSE "write"
          /\ c.phase = IF r.phase = NumPhases THEN NumPhases ELSE r.phase + 1
      BY <3>1, <3>2, NextPhaseIs
    <3>4. r2 = [c EXCEPT !.replies = @ + 1]
      BY <1>3, <1>6, <1>9, <3>1 DEF Replied
    <3> QED
      BY <3>3, <3>4, WithReplies
  <2>6. /\ p.phase = r2.phase /\ p.i = 0 /\ p.k = 0
        /\ p.pc = (IF r.phase = NumPhases THEN "done" ELSE "read") /\ ~Through(r2, p)
    <3>1. /\ p.phase \in {r.phase, r.phase + 1} /\ Idle(p) /\ p.pc \in {"read", "done"}
          /\ p.pc = "done" => r.phase = NumPhases
          /\ p.pc = "done" => p.phase = NumPhases
      BY <2>3 DEF Agree, InPhase, Responding
    <3>2. r.phase \in 1 .. NumPhases /\ p.phase \in 1 .. NumPhases /\ NumPhases \in Nat
      BY PhasesKnown
    <3>3. CASE r.phase = NumPhases
      <4>1. p.pc = "done"
        BY <2>3, <3>2, <3>3 DEF Through
      <4> QED
        BY <2>5, <3>1, <3>2, <3>3, <4>1 DEF Through, Idle
    <3>4. CASE r.phase # NumPhases
      <4>1. p.pc = "read" /\ p.phase = r.phase + 1
        BY <2>3, <3>1, <3>4 DEF Through
      <4> QED
        BY <2>5, <3>1, <3>2, <3>4, <4>1 DEF Through, Idle
    <3> QED
      BY <3>3, <3>4
  <2>7. /\ First(r2) = r2.replies /\ First(r2) \in Nat
        /\ WriteCursor(r2) = <<0, 0>> /\ ReplyCursor(r2) = <<0, 0>>
        /\ RequestCursor(r2, p) = <<0, 0>> /\ AnswerCursor(r2, p) = <<0, 0>>
    <3>1. r2.replies \in Nat /\ r2.pc \in {"done", "write"}
      BY <2>5 DEF Children
    <3>2. First(r2) = r2.replies /\ WriteCursor(r2) = <<0, 0>> /\ ReplyCursor(r2) = <<0, 0>>
      BY <2>5, <3>1 DEF First, WriteCursor, ReplyCursor
    <3>3. p.pc # "write"
      BY <2>6
    <3>4. RequestCursor(r2, p) = <<0, 0>> /\ AnswerCursor(r2, p) = <<0, 0>>
      BY <2>6, <3>3 DEF RequestCursor, AnswerCursor
    <3> QED
      BY <3>1, <3>2, <3>4
  <2>8. Requesting(r2)
    <3>1. Message(r2).batch \in Nat \ {0} /\ Message(r2).request \in Nat \ {0}
      BY <2>5, MessageSizes
    <3>2. r2.i < Message(r2).batch /\ r2.k < Message(r2).request
      BY <2>5, <3>1
    <3>3. r2.id = First(r2) + WriteCursor(r2)[1]
      BY SMTT(30), <1>2, <1>3, <2>1, <2>5, <2>7
    <3> QED
      BY <2>5, <3>2, <3>3 DEF Requesting, PCs, Idle
  <2>9. InPhase(r2, p)
    BY <2>5, <2>6 DEF InPhase
  <2>10. Between(r2, p, q, Tail(a))
    <3>1. Message(r2).request \in Nat /\ Message(r2).response \in Nat /\ <<0, 0>> \in Nat \X Nat
      BY <2>5, MessageSizes
    <3> QED
      BY <2>4, <2>7, <3>1, HoldsNothing DEF Between
  <2>11. r2.phase = r.phase \/ (r2.phase = r.phase + 1 /\ r2.pc = "write")
    BY <2>5
  <2> QED
    BY <1>5, <2>5, <2>8, <2>9, <2>10, <2>11 DEF Agree
<1> QED
  BY <1>7, <1>8, <1>9

\* A child begins: it is at the start of its first batch.
LEMMA AgreeBegins ==
    ASSUME NEW r \in Children, NEW p \in Children, NEW q, NEW a, Agree(r, p, q, a)
    PROVE  /\ \A goal \in {"start", "write"} : r.pc \in {"unborn", "start"} =>
                 Agree([r EXCEPT !.pc = goal], p, q, a)
           /\ \A goal \in {"start", "read"} : p.pc \in {"unborn", "start"} =>
                 Agree(r, [p EXCEPT !.pc = goal], q, a)
<1>1. ASSUME NEW goal \in {"start", "write"}, r.pc \in {"unborn", "start"}
      PROVE  Agree([r EXCEPT !.pc = goal], p, q, a)
  <2>1. PICK r2 : r2 = [r EXCEPT !.pc = goal]
    OBVIOUS
  <2>2. /\ r2 \in Children /\ r2.pc = goal /\ r2.phase = r.phase /\ r2.i = 0 /\ r2.k = 0
        /\ r2.id = r.id /\ r2.replies = r.replies /\ Message(r2) = Message(r)
        /\ r.i = 0 /\ r.k = 0 /\ r.phase = 1
    <3>1. r2 \in Children
      BY <2>1 DEF Children, PCs
    <3>2. r.i = 0 /\ r.k = 0 /\ r.phase = 1
      BY <1>1 DEF Agree, Requesting, Idle
    <3> QED
      BY <2>1, <3>1, <3>2 DEF Children, Message
  <2>3. /\ WriteCursor(r2) = WriteCursor(r) /\ ReplyCursor(r2) = ReplyCursor(r)
        /\ First(r2) = First(r)
    BY <1>1, <2>2 DEF WriteCursor, ReplyCursor, First
  <2>4. ~Through(r, p) /\ ~Through(r2, p)
    BY <1>1, <2>2 DEF Agree, InPhase, Through
  <2>5. Requesting(r2)
    <3>1. 0 < Message(r2).batch /\ 0 < Message(r2).request
      BY <2>2, MessageSizes
    <3> QED
      BY <1>1, <2>2, <2>3, <3>1 DEF Agree, Requesting, PCs, Idle
  <2>6. InPhase(r2, p)
    BY <1>1, <2>2, <2>3, <2>4 DEF Agree, InPhase
  <2>7. RequestCursor(r2, p) = RequestCursor(r, p) /\ AnswerCursor(r2, p) = AnswerCursor(r, p)
    BY <2>4 DEF RequestCursor, AnswerCursor
  <2> QED
    BY <2>1, <2>2, <2>3, <2>5, <2>6, <2>7 DEF Agree, Between
<1>2. ASSUME NEW goal \in {"start", "read"}, p.pc \in {"unborn", "start"}
      PROVE  Agree(r, [p EXCEPT !.pc = goal], q, a)
  <2>1. PICK p2 : p2 = [p EXCEPT !.pc = goal]
    OBVIOUS
  <2>2. /\ p2 \in Children /\ p2.pc = goal /\ p2.phase = p.phase /\ p2.i = 0 /\ p2.k = 0
        /\ p.i = 0 /\ p.k = 0 /\ p.phase = 1 /\ Message(p2) = Message(p)
    <3>1. p2 \in Children
      BY <2>1 DEF Children, PCs
    <3>2. p.i = 0 /\ p.k = 0 /\ p.phase = 1
      BY <1>2 DEF Agree, Responding, Idle
    <3> QED
      BY <2>1, <3>1, <3>2 DEF Children, Message
  <2>3. ~Through(r, p) /\ ~Through(r, p2)
    BY <1>2, <2>2 DEF Agree, InPhase, Through
  <2>4. Responding(p2)
    <3>1. 0 < Message(p2).batch /\ 0 < Message(p2).request
      BY <2>2, MessageSizes
    <3> QED
      BY <2>2, <3>1 DEF Responding, PCs, Idle
  <2>5. InPhase(r, p2)
    <3>1. r.pc # "done"
      BY <1>2 DEF Agree, InPhase
    <3>2. p2.phase \in {r.phase, r.phase + 1}
      BY <2>2 DEF Agree, InPhase
    <3>3. p2.pc # "write" /\ ~(p2.k > 0) /\ p2.pc # "done"
      BY <2>2
    <3> QED
      BY <2>3, <3>1, <3>2, <3>3 DEF InPhase
  <2>6. RequestCursor(r, p2) = RequestCursor(r, p) /\ AnswerCursor(r, p2) = AnswerCursor(r, p)
    BY <1>2, <2>2, <2>3 DEF RequestCursor, AnswerCursor
  <2> QED
    BY <2>1, <2>4, <2>5, <2>6 DEF Agree, Between
<1> QED
  BY <1>1, <1>2

-----------------------------------------------------------------------------
(* What the pipes have room for.                                           *)

\* A product of numbers is a number.
LEMMA ProductIsNat ==
    ASSUME NEW i \in Nat, NEW l \in Nat
    PROVE  i * l \in Nat
OBVIOUS

\* More messages have more bytes.
LEMMA Times ==
    ASSUME NEW i \in Nat, NEW j \in Nat, NEW l \in Nat, i <= j
    PROVE  i * l <= j * l /\ i * l \in Nat /\ j * l \in Nat
<1>1. PICK d \in Nat : j = i + d
  <2>1. j - i \in Nat /\ j = i + (j - i)
    OBVIOUS
  <2> QED
    BY <2>1
<1>2. j * l = i * l + d * l /\ d * l >= 0 /\ i * l \in Nat /\ d * l \in Nat
  BY <1>1
<1> QED
  BY <1>2

\* What \div rounds off.
LEMMA DivIs ==
    ASSUME NEW n \in Nat, NEW s \in Nat \ {0}
    PROVE  /\ n \div s \in Nat
           /\ (n \div s) * s <= n
           /\ n < (n \div s) * s + s
<1>1. n \div s \in Int /\ n % s \in 0 .. s - 1 /\ n = s * (n \div s) + (n % s)
  OBVIOUS
<1>2. n \div s \in Nat
  OBVIOUS
<1> QED
  BY <1>1, <1>2

\* If j whole answers fit in the pipe, and with the j requests they are for
\* and the one after them the rest of n requests fits too, the batch fits.
LEMMA Fitting ==
    ASSUME NEW R \in Nat, NEW Q \in Nat, NEW l \in Nat \ {0}, NEW s \in Nat \ {0},
           NEW n \in Nat, NEW j \in Nat, j * s <= R, n * l <= (j + 1) * l + Q
    PROVE  (R \div s + 1) * l + Q >= n * l
<1>1. PICK d \in Nat : d = R \div s /\ R < d * s + s
  BY DivIs
<1>2. j <= d
  <2> SUFFICES ASSUME ~(j <= d) PROVE FALSE
    OBVIOUS
  <2>1. d + 1 <= j /\ d + 1 \in Nat
    OBVIOUS
  <2>2. (d + 1) * s <= j * s /\ (d + 1) * s \in Nat /\ j * s \in Nat
    BY <2>1, Times
  <2>3. (d + 1) * s = d * s + s /\ d * s \in Nat
    OBVIOUS
  <2> QED
    BY <1>1, <2>2, <2>3
<1>3. (j + 1) * l <= (d + 1) * l /\ (j + 1) * l \in Nat /\ (d + 1) * l \in Nat
  <2>1. j + 1 \in Nat /\ d + 1 \in Nat /\ j + 1 <= d + 1
    BY <1>2
  <2> QED
    BY <2>1, Times
<1>4. n * l \in Nat
  OBVIOUS
<1> QED
  BY <1>1, <1>3, <1>4

\* If both pipes are full in the middle of it, it does not fit.
LEMMA NotFitting ==
    ASSUME NEW R \in Nat, NEW Q \in Nat, NEW l \in Nat \ {0}, NEW s \in Nat \ {0},
           NEW n \in Nat, NEW j \in Nat, NEW k \in Nat, k < s, R <= j * s + k,
           NEW w \in Nat, (j + 1) * l + Q <= w, w < n * l
    PROVE  ~((R \div s + 1) * l + Q >= n * l)
<1>1. PICK d \in Nat : d = R \div s /\ d * s <= R
  BY DivIs
<1>2. d <= j
  <2> SUFFICES ASSUME ~(d <= j) PROVE FALSE
    OBVIOUS
  <2>1. j + 1 <= d /\ j + 1 \in Nat
    OBVIOUS
  <2>2. (j + 1) * s <= d * s /\ (j + 1) * s \in Nat /\ d * s \in Nat
    BY <2>1, Times
  <2>3. (j + 1) * s = j * s + s /\ j * s \in Nat
    OBVIOUS
  <2> QED
    BY <1>1, <2>2, <2>3
<1>3. (d + 1) * l <= (j + 1) * l /\ (j + 1) * l \in Nat /\ (d + 1) * l \in Nat
  <2>1. j + 1 \in Nat /\ d + 1 \in Nat /\ d + 1 <= j + 1
    BY <1>2
  <2> QED
    BY <2>1, Times
<1>4. n * l \in Nat
  OBVIOUS
<1> QED
  BY <1>1, <1>3, <1>4

\* The responder reads no further than the request it answers next.
LEMMA AnswersBehind ==
    ASSUME NEW r \in Children, NEW p \in Children, Responding(p), InPhase(r, p),
           NEW l, l = Message(r).request
    PROVE  BytesBefore(RequestCursor(r, p), l) <= (AnswerCursor(r, p)[1] + 1) * l
<1>1. l \in Nat \ {0} /\ Message(r).batch \in Nat
  BY MessageSizes
<1>2. p.i \in Nat /\ p.k \in Nat
  BY DEF Children
<1>3. CASE Through(r, p)
  <2>1. PICK n \in Nat : n = Message(r).batch
    BY <1>1
  <2>2. RequestCursor(r, p) = <<n, 0>> /\ AnswerCursor(r, p) = <<n, 0>>
    BY <1>3, <2>1 DEF RequestCursor, AnswerCursor
  <2>3. n * l + 0 <= (n + 1) * l
    <3>1. n + 1 \in Nat /\ n <= n + 1
      OBVIOUS
    <3> QED
      BY <1>1, <3>1, Times
  <2> QED
    BY <2>2, <2>3 DEF BytesBefore
<1>4. CASE ~Through(r, p) /\ p.pc = "write"
  <2>1. RequestCursor(r, p) = <<p.i + 1, 0>> /\ AnswerCursor(r, p) = <<p.i, p.k>>
    BY <1>4 DEF RequestCursor, AnswerCursor
  <2>2. (p.i + 1) * l \in Nat
    BY <1>1, <1>2
  <2> QED
    BY <1>2, <2>1, <2>2 DEF BytesBefore
<1>5. CASE ~Through(r, p) /\ p.pc # "write"
  <2>1. RequestCursor(r, p) = <<p.i, p.k>> /\ AnswerCursor(r, p) = <<p.i, 0>>
    BY <1>5 DEF RequestCursor, AnswerCursor
  <2>2. p.k <= l
    <3>1. Message(p) = Message(r)
      BY <1>5 DEF InPhase, Through, Message
    <3>2. p.pc = "read" => p.k <= l
      BY <1>1, <1>2, <3>1 DEF Responding
    <3>3. p.pc # "read" => p.k = 0
      BY <1>5 DEF Responding, Idle, PCs
    <3> QED
      BY <1>1, <3>2, <3>3
  <2>3. p.i * l \in Nat /\ (p.i + 1) * l = p.i * l + l
    BY <1>1, <1>2
  <2>4. p.i * l + p.k <= (p.i + 1) * l
    BY <1>1, <1>2, <2>2, <2>3
  <2> QED
    BY <1>2, <2>1, <2>4 DEF BytesBefore
<1> QED
  BY <1>3, <1>4, <1>5

\* When all requests of a batch have been written, and none of the replies
\* been read, the pipes have taken the whole batch.
LEMMA BatchFits ==
    ASSUME NEW r \in Children, NEW p \in Children, NEW q \in Seq(Nat), NEW a \in Seq(Nat),
           Agree(r, p, q, a), r.pc = "read", r.i = 0, r.k = 0,
           NEW R \in Nat, NEW Q \in Nat, Len(q) <= Q, Len(a) <= R
    PROVE  (R \div Message(r).response + 1) * Message(r).request + Q
              >= Message(r).batch * Message(r).request
<1>1. PICK n \in Nat, l \in Nat \ {0}, s \in Nat \ {0} :
          n = Message(r).batch /\ l = Message(r).request /\ s = Message(r).response
  BY MessageSizes
<1>2. PICK j \in Nat, k \in Nat : AnswerCursor(r, p) = <<j, k>>
  <2>1. AnswerCursor(r, p) \in Nat \X Nat
    BY CursorsKnown DEF Agree
  <2> QED
    BY <2>1
<1>3. RequestCursor(r, p) \in Nat \X Nat
  BY CursorsKnown DEF Agree
<1>4. j * s <= R
  <2>1. j * s + k = BytesBefore(<<0, 0>>, s) + Len(a)
    <3>1. Holds(a, ReplyCursor(r), AnswerCursor(r, p), s, First(r))
      BY <1>1 DEF Agree, Between
    <3>2. ReplyCursor(r) = <<0, 0>>
      BY DEF ReplyCursor
    <3>3. BytesBefore(<<j, k>>, s) = BytesBefore(<<0, 0>>, s) + Len(a)
      BY <1>2, <3>1, <3>2 DEF Holds
    <3> QED
      BY <3>3 DEF BytesBefore
  <2>2. BytesBefore(<<0, 0>>, s) = 0
    BY <1>1 DEF BytesBefore
  <2>3. Len(a) \in Nat /\ j * s \in Nat
    BY <1>1, <1>2, ProductIsNat
  <2> QED
    BY <2>1, <2>2, <2>3
<1>5. n * l <= (j + 1) * l + Q
  <2>1. n * l + 0 = BytesBefore(RequestCursor(r, p), l) + Len(q)
    BY <1>1 DEF Agree, Between, Holds, WriteCursor, BytesBefore
  <2>2. BytesBefore(RequestCursor(r, p), l) <= (j + 1) * l
    <3>1. Responding(p) /\ InPhase(r, p) /\ l = Message(r).request
      BY <1>1 DEF Agree
    <3>2. BytesBefore(RequestCursor(r, p), l) <= (AnswerCursor(r, p)[1] + 1) * l
      BY <3>1, AnswersBehind
    <3> QED
      BY <1>2, <3>2
  <2>3. BytesBefore(RequestCursor(r, p), l) \in Nat /\ Len(q) \in Nat
    <3>1. l \in Nat
      BY <1>1
    <3>2. BytesBefore(RequestCursor(r, p), l) \in Nat
      BY <1>3, <3>1, BeforeIsNat
    <3> QED
      BY <3>2
  <2>4. n * l \in Nat /\ (j + 1) * l \in Nat
    <3>1. n \in Nat /\ l \in Nat /\ j + 1 \in Nat
      BY <1>1, <1>2
    <3> QED
      BY <3>1, ProductIsNat
  <2> QED
    BY <2>1, <2>2, <2>3, <2>4
<1> QED
  BY <1>1, <1>4, <1>5, Fitting

-----------------------------------------------------------------------------
(* The invariant.                                                          *)

\* Types, and the pipes' bounds.
PTypeOK ==
    /\ room \in [Pipes -> Nat \ {0}] /\ pipe \in [Pipes -> Seq(Nat)]
    /\ \A c \in Pipes : Len(pipe[c]) <= room[c]
    /\ requester \in Children /\ responder \in Children
    /\ parent \in {"fork1", "fork2", "poll", "exited"} /\ reaped \subseteq {1, 2}
    /\ status \in {-1, 0, 1}

\* Who has been born, and who may have died, at each place of main().
Lifetimes ==
    /\ parent = "fork1" => requester.pc = "unborn"
    /\ parent \in {"fork1", "fork2"} => responder.pc = "unborn"
    /\ requester.pc \in {"aborted", "killed"} \/ responder.pc \in {"aborted", "killed"}
          => parent = "exited"
    /\ parent = "exited" =>
          responder.pc = "unborn" \/ (requester.pc \in Ended /\ responder.pc \in Ended)
    /\ requester.pc = "aborted" => responder.pc = "unborn"
    /\ responder.pc # "aborted"
    /\ 1 \in reaped => requester.pc \in Ended
    /\ 2 \in reaped => responder.pc \in Ended
    /\ status = 0 => requester.pc = "done" /\ responder.pc = "done"

\* Neither child has died before its end.
Intact == requester.pc \notin {"aborted", "killed"} /\ responder.pc \notin {"aborted", "killed"}

\* The batches written completely fitted in the pipes.
Written(n) == n < requester.phase \/ (n = requester.phase /\ requester.pc \in {"read", "done"})
BatchesFitted == \A n \in 1 .. NumPhases : Written(n) => FitsPipes(Phases[n])

Agreed == Agree(requester, responder, pipe["requests"], pipe["responses"])

\* The strengthening of the three properties that every step preserves.
PipeInv == PTypeOK /\ Lifetimes /\ (Intact => Agreed /\ BatchesFitted)

\* Before the forks the pipes are empty and the children are at the start of the
\* first batch.
LEMMA PipeInit == PInit => PipeInv
<1> SUFFICES ASSUME PInit PROVE PipeInv
  OBVIOUS
<1>1. Unborn \in Children /\ requester = Unborn /\ responder = Unborn /\ Unborn.pc = "unborn"
  BY PhasesKnown DEF PInit, Unborn, Children, PCs
<1>2. PTypeOK
  <2>1. room \in [Pipes -> Nat \ {0}]
    BY CapacityAssumption DEF PInit
  <2>2. pipe \in [Pipes -> Seq(Nat)] /\ \A c \in Pipes : pipe[c] = << >>
    BY DEF PInit
  <2>3. \A c \in Pipes : Len(pipe[c]) <= room[c]
    <3> SUFFICES ASSUME NEW c \in Pipes PROVE Len(pipe[c]) <= room[c]
      OBVIOUS
    <3>1. Len(pipe[c]) = 0 /\ room[c] \in Nat
      BY <2>1, <2>2
    <3> QED
      BY <3>1
  <2> QED
    BY <1>1, <2>1, <2>2, <2>3 DEF PInit, PTypeOK
<1>3. Lifetimes
  BY <1>1 DEF PInit, Lifetimes
<1>4. Agreed
  <2>1. PICK r : r = Unborn
    OBVIOUS
  <2>2. /\ r \in Children /\ r.pc = "unborn" /\ r.phase = 1 /\ r.i = 0 /\ r.k = 0 /\ r.id = 0
        /\ r.replies = 0
    BY <1>1, <2>1 DEF Unborn
  <2>3. ~Through(r, r)
    BY <2>2 DEF Through
  <2>4. /\ WriteCursor(r) = <<0, 0>> /\ ReplyCursor(r) = <<0, 0>> /\ First(r) = 0
        /\ RequestCursor(r, r) = <<0, 0>> /\ AnswerCursor(r, r) = <<0, 0>>
    BY <2>2, <2>3 DEF WriteCursor, ReplyCursor, First, RequestCursor, AnswerCursor
  <2>5. Requesting(r) /\ Responding(r)
    BY <2>2, <2>4 DEF Requesting, Responding, PCs, Idle
  <2>6. InPhase(r, r)
    BY <2>2, <2>3 DEF InPhase
  <2>7. Message(r).request \in Nat /\ Message(r).response \in Nat /\ <<0, 0>> \in Nat \X Nat
    BY <2>2, MessageSizes
  <2>8. Between(r, r, << >>, << >>)
    BY <2>4, <2>7, HoldsNothing DEF Between
  <2>9. pipe["requests"] = << >> /\ pipe["responses"] = << >>
    BY DEF PInit, Pipes
  <2> QED
    BY <1>1, <2>1, <2>5, <2>6, <2>8, <2>9 DEF Agreed, Agree
<1>5. BatchesFitted
  BY <1>1 DEF BatchesFitted, Written, Unborn
<1> QED
  BY <1>2, <1>3, <1>4, <1>5 DEF PipeInv

\* Somebody who writes or reads lives, and so does the other if he was born.
LEMMA LivingAreIntact ==
    ASSUME PipeInv, requester.pc \in {"read", "write"} \/ responder.pc \in {"read", "write"},
           responder.pc # "unborn" \/ requester.pc \notin Ended
    PROVE  Intact
BY DEF PipeInv, Lifetimes, Intact, Ended

\* A byte more or less in a pipe.
LEMMA PutGood ==
    ASSUME PTypeOK, NEW c \in Pipes, NEW b, Append(pipe[c], b) \in Seq(Nat),
           Put(c, b), Len(pipe[c]) < room[c]
    PROVE  /\ pipe' \in [Pipes -> Seq(Nat)] /\ pipe'[c] = Append(pipe[c], b)
           /\ \A d \in Pipes : d # c => pipe'[d] = pipe[d]
           /\ \A d \in Pipes : Len(pipe'[d]) <= room[d]
<1>1. /\ pipe' \in [Pipes -> Seq(Nat)] /\ pipe'[c] = Append(pipe[c], b)
      /\ \A d \in Pipes : d # c => pipe'[d] = pipe[d]
  BY DEF PTypeOK, Put
<1>2. Len(pipe'[c]) <= room[c]
  <2>1. PICK q \in Seq(Nat), n \in Nat : q = pipe[c] /\ n = room[c]
    BY DEF PTypeOK
  <2>2. Len(pipe'[c]) = Len(q) + 1 /\ Len(q) \in Nat
    <3>1. Len(Append(q, b)) = Len(q) + 1
      BY <2>1
    <3> QED
      BY <1>1, <2>1, <3>1
  <2> QED
    BY <2>1, <2>2
<1> QED
  BY <1>1, <1>2 DEF PTypeOK

\* A byte less in a pipe.
LEMMA ConsumeGood ==
    ASSUME PTypeOK, NEW c \in Pipes, Tail(pipe[c]) \in Seq(Nat), Consume(c), pipe[c] # << >>
    PROVE  /\ pipe' \in [Pipes -> Seq(Nat)] /\ pipe'[c] = Tail(pipe[c])
           /\ \A d \in Pipes : d # c => pipe'[d] = pipe[d]
           /\ \A d \in Pipes : Len(pipe'[d]) <= room[d]
<1>1. /\ pipe' \in [Pipes -> Seq(Nat)] /\ pipe'[c] = Tail(pipe[c])
      /\ \A d \in Pipes : d # c => pipe'[d] = pipe[d]
  BY DEF PTypeOK, Consume
<1>2. Len(pipe'[c]) <= room[c]
  <2>1. PICK q \in Seq(Nat), n \in Nat : q = pipe[c] /\ n = room[c] /\ Len(q) <= n
    BY DEF PTypeOK
  <2>2. Len(Tail(q)) = Len(q) - 1 /\ Len(q) \in Nat
    BY <2>1
  <2>3. Len(pipe'[c]) = Len(q) - 1
    BY <1>1, <2>1, <2>2
  <2> QED
    BY <2>1, <2>2, <2>3
<1> QED
  BY <1>1, <1>2 DEF PTypeOK

-----------------------------------------------------------------------------
(* Every step preserves it.                                                *)

\* Which pipe is which.
LEMMA PipesAre ==
    /\ "requests" \in Pipes /\ "responses" \in Pipes
    /\ \A c \in Pipes : c = "requests" \/ c = "responses"
BY DEF Pipes

\* The requester writes a byte; with the last of a batch, the batch has fitted.
LEMMA RequesterWritesGood == ASSUME PipeInv, RequesterWrites PROVE PipeInv'
<1>1. /\ requester.pc = "write" /\ CanWrite("requests")
      /\ requester' = IF requester.k + 1 < Message(requester).request
                      THEN NextByte(requester) ELSE Requested(requester)
      /\ Put("requests", Byte(requester.id, requester.k))
      /\ UNCHANGED <<room, responder, parent, reaped, status>>
  BY DEF RequesterWrites
<1>2. PTypeOK /\ Lifetimes
  BY DEF PipeInv
<1>3. Intact /\ Agreed /\ BatchesFitted
  BY <1>1, LivingAreIntact DEF PipeInv, Ended
<1>4. PICK q \in Seq(Nat), a \in Seq(Nat), b \in {Byte(requester.id, requester.k)} :
          q = pipe["requests"] /\ a = pipe["responses"]
  BY <1>2, PipesAre DEF PTypeOK
<1>5. /\ requester' \in Children /\ Append(q, b) \in Seq(Nat)
      /\ requester'.pc \in {"write", "read"} /\ requester'.phase = requester.phase
      /\ Agree(requester', responder, Append(q, b), a)
  <2>1. requester \in Children /\ responder \in Children
    BY <1>2 DEF PTypeOK
  <2>2. Agree(requester, responder, q, a)
    BY <1>3, <1>4 DEF Agreed
  <2> QED
    BY <1>1, <1>4, <2>1, <2>2, AgreeRequested
<1>6. /\ pipe' \in [Pipes -> Seq(Nat)] /\ pipe'["requests"] = Append(q, b)
      /\ pipe'["responses"] = a /\ \A d \in Pipes : Len(pipe'[d]) <= room[d]
  <2>1. Len(pipe["requests"]) < room["requests"]
    BY <1>1 DEF CanWrite
  <2>2. "requests" # "responses"
    OBVIOUS
  <2> QED
    BY <1>1, <1>2, <1>4, <1>5, <2>1, <2>2, PipesAre, PutGood
<1>7. PTypeOK'
  BY <1>1, <1>2, <1>5, <1>6 DEF PTypeOK
<1>8. Lifetimes'
  BY <1>1, <1>2, <1>3, <1>5 DEF Lifetimes, Intact, Ended
<1>9. Agreed'
  BY <1>1, <1>5, <1>6 DEF Agreed
<1>10. BatchesFitted'
  <2>1. requester.phase \in 1 .. NumPhases /\ room' = room
    BY <1>1, <1>2, PhasesKnown DEF PTypeOK
  <2>2. ASSUME requester'.pc = "read" PROVE FitsPipes(Phases[requester.phase])
    <3>1. PICK R \in Nat, Q \in Nat, q2 \in Seq(Nat) :
              R = room["responses"] /\ Q = room["requests"] /\ q2 = Append(q, b)
      BY <1>2, <1>5, PipesAre DEF PTypeOK
    <3>2. requester'.i = 0 /\ requester'.k = 0
      <4>1. PICK r \in Children : r = requester
        BY <1>2 DEF PTypeOK
      <4>2. requester' = Requested(r)
        <5>1. NextByte(r).pc = "write"
          BY <1>1, <4>1, NextByteIs
        <5>2. requester'.pc # "write"
          BY <2>2
        <5>3. requester' = NextByte(r) \/ requester' = Requested(r)
          BY <1>1, <4>1
        <5> QED
          BY <5>1, <5>2, <5>3
      <4>3. Requested(r).pc = "read" /\ Requested(r).k = 0
        BY <2>2, <4>2, RequestedIs
      <4>4. Requested(r).i = 0
        <5>1. ~(r.i + 1 < Message(r).batch)
          <6>1. r.i + 1 < Message(r).batch => Requested(r).pc = r.pc
            BY RequestedIs
          <6> QED
            BY <1>1, <4>1, <4>3, <6>1
        <5> QED
          BY <5>1, RequestedIs
      <4> QED
        BY <4>2, <4>3, <4>4
    <3>3. Len(q2) <= Q /\ Len(a) <= R
      BY <1>6, <3>1, PipesAre
    <3>4. PICK r2 \in Children : r2 = requester'
      BY <1>5
    <3>5. PICK m : m = Phases[requester.phase]
      OBVIOUS
    <3>6. Message(r2) = m
      BY <1>5, <3>4, <3>5 DEF Message
    <3>7. (R \div m.response + 1) * m.request + Q >= m.batch * m.request
      <4>1. responder \in Children
        BY <1>2 DEF PTypeOK
      <4>2. Agree(r2, responder, q2, a) /\ r2.pc = "read" /\ r2.i = 0 /\ r2.k = 0
        BY <1>5, <2>2, <3>1, <3>2, <3>4
      <4>3. (R \div Message(r2).response + 1) * Message(r2).request + Q
                >= Message(r2).batch * Message(r2).request
        BY <3>3, <4>1, <4>2, BatchFits
      <4> QED
        BY <3>6, <4>3
    <3>8. FitsPipes(m)
      BY <3>1, <3>7 DEF FitsPipes
    <3> QED
      BY <3>5, <3>8
  <2>3. ASSUME NEW n \in 1 .. NumPhases, Written(n)' PROVE FitsPipes(Phases[n])'
    <3>1. CASE n = requester.phase /\ requester'.pc = "read"
      <4>1. FitsPipes(Phases[n])
        BY <2>2, <3>1
      <4> QED
        BY <2>1, <4>1 DEF FitsPipes
    <3>2. CASE ~(n = requester.phase /\ requester'.pc = "read")
      <4>1. Written(n)
        BY <1>5, <2>3, <3>2 DEF Written
      <4> QED
        BY <1>3, <2>1, <4>1 DEF BatchesFitted, FitsPipes
    <3> QED
      BY <3>1, <3>2
  <2> QED
    BY <2>3 DEF BatchesFitted
<1> QED
  BY <1>7, <1>8, <1>9, <1>10 DEF PipeInv

\* The requester reads a byte of a reply, and its assertion holds.
LEMMA RequesterReadsGood == ASSUME PipeInv, RequesterReads PROVE PipeInv'
<1>1. PICK d :
      /\ d = Received(requester, "responses")
      /\ requester.pc = "read" /\ pipe["responses"] # << >>
      /\ requester' = IF d.k + 1 < Message(d).response THEN NextByte(d) ELSE Replied(d)
      /\ Consume("responses")
      /\ UNCHANGED <<room, responder, parent, reaped, status>>
  BY DEF RequesterReads, CanRead
<1>2. PTypeOK /\ Lifetimes
  BY DEF PipeInv
<1>3. Intact /\ Agreed /\ BatchesFitted
  BY <1>1, LivingAreIntact DEF PipeInv, Ended
<1>4. PICK q \in Seq(Nat), a \in Seq(Nat) : q = pipe["requests"] /\ a = pipe["responses"]
  BY <1>2, PipesAre DEF PTypeOK
<1>5. /\ requester' \in Children /\ Tail(a) \in Seq(Nat)
      /\ requester'.pc \in {"read", "write", "done"}
      /\ \/ requester'.phase = requester.phase
         \/ requester'.phase = requester.phase + 1 /\ requester'.pc = "write"
      /\ Agree(requester', responder, q, Tail(a))
  <2>1. requester \in Children /\ responder \in Children
    BY <1>2 DEF PTypeOK
  <2>2. Agree(requester, responder, q, a)
    BY <1>3, <1>4 DEF Agreed
  <2>3. /\ d \in Children /\ d.buf = (IF requester.k = 0 THEN Head(a) ELSE requester.buf)
        /\ d.pc = requester.pc /\ d.phase = requester.phase /\ d.i = requester.i
        /\ d.k = requester.k /\ d.replies = requester.replies /\ d.id = requester.id
    BY <1>1, <1>4, <2>1, ReceivedIs
  <2>4. PICK r \in Children, p \in Children : r = requester /\ p = responder
    BY <2>1
  <2>5. PICK r2 : r2 = IF d.k + 1 < Message(d).response THEN NextByte(d) ELSE Replied(d)
    OBVIOUS
  <2>6. Agree(r, p, q, a) /\ r.pc = "read" /\ a # << >>
    BY <1>1, <1>4, <2>2, <2>4
  <2>7. /\ d \in Children /\ d.pc = r.pc /\ d.phase = r.phase /\ d.i = r.i /\ d.k = r.k
        /\ d.replies = r.replies /\ d.id = r.id
        /\ d.buf = (IF r.k = 0 THEN Head(a) ELSE r.buf)
    BY <2>3, <2>4
  <2>8. /\ r2 \in Children /\ Tail(a) \in Seq(Nat)
        /\ r2.pc \in {"read", "write", "done"}
        /\ r2.phase = r.phase \/ (r2.phase = r.phase + 1 /\ r2.pc = "write")
        /\ Agree(r2, p, q, Tail(a))
    BY <2>5, <2>6, <2>7, AgreeReplied
  <2> QED
    BY <1>1, <2>4, <2>5, <2>8
<1>6. /\ pipe' \in [Pipes -> Seq(Nat)] /\ pipe'["responses"] = Tail(a)
      /\ pipe'["requests"] = q /\ \A c \in Pipes : Len(pipe'[c]) <= room[c]
  <2>1. "requests" # "responses"
    OBVIOUS
  <2> QED
    BY <1>1, <1>2, <1>4, <1>5, <2>1, PipesAre, ConsumeGood
<1>7. PTypeOK'
  BY <1>1, <1>2, <1>5, <1>6 DEF PTypeOK
<1>8. Lifetimes'
  BY <1>1, <1>2, <1>3, <1>5 DEF Lifetimes, Intact, Ended
<1>9. Agreed'
  BY <1>1, <1>5, <1>6 DEF Agreed
<1>10. BatchesFitted'
  <2>1. requester.phase \in 1 .. NumPhases /\ NumPhases \in Nat /\ room' = room
    BY <1>1, <1>2, PhasesKnown DEF PTypeOK
  <2>2. ASSUME NEW n \in 1 .. NumPhases, Written(n)' PROVE FitsPipes(Phases[n])'
    <3>1. Written(n)
      BY <1>1, <1>5, <2>1, <2>2 DEF Written
    <3> QED
      BY <1>3, <2>1, <3>1 DEF BatchesFitted, FitsPipes
  <2> QED
    BY <2>2 DEF BatchesFitted
<1> QED
  BY <1>7, <1>8, <1>9, <1>10 DEF PipeInv

\* The responder reads a byte of a request.
LEMMA ResponderReadsGood == ASSUME PipeInv, ResponderReads PROVE PipeInv'
<1>1. PICK d :
      /\ d = Received(responder, "requests")
      /\ responder.pc = "read" /\ pipe["requests"] # << >>
      /\ responder' = IF d.k + 1 < Message(d).request
                      THEN NextByte(d) ELSE [d EXCEPT !.k = 0, !.pc = "write"]
      /\ Consume("requests")
      /\ UNCHANGED <<room, requester, parent, reaped, status>>
  BY DEF ResponderReads, CanRead
<1>2. PTypeOK /\ Lifetimes
  BY DEF PipeInv
<1>3. Intact /\ Agreed /\ BatchesFitted
  BY <1>1, LivingAreIntact DEF PipeInv, Ended
<1>4. PICK q \in Seq(Nat), a \in Seq(Nat) : q = pipe["requests"] /\ a = pipe["responses"]
  BY <1>2, PipesAre DEF PTypeOK
<1>5. /\ responder' \in Children /\ Tail(q) \in Seq(Nat)
      /\ responder'.pc \in {"read", "write"}
      /\ Agree(requester, responder', Tail(q), a)
  <2>1. requester \in Children /\ responder \in Children
    BY <1>2 DEF PTypeOK
  <2>2. Agree(requester, responder, q, a)
    BY <1>3, <1>4 DEF Agreed
  <2>3. /\ d \in Children /\ d.buf = (IF responder.k = 0 THEN Head(q) ELSE responder.buf)
        /\ d.pc = responder.pc /\ d.phase = responder.phase /\ d.i = responder.i
        /\ d.k = responder.k
    BY <1>1, <1>4, <2>1, ReceivedIs
  <2>4. PICK p2 : p2 = responder'
    OBVIOUS
  <2>5. /\ p2 \in Children /\ p2.phase = d.phase /\ p2.i = d.i /\ p2.buf = d.buf
        /\ p2.pc \in {"read", "write"}
        /\ (d.k + 1 < Message(d).request => p2.pc = d.pc /\ p2.k = d.k + 1)
        /\ (~(d.k + 1 < Message(d).request) => p2.pc = "write" /\ p2.k = 0)
    <3>1. CASE d.k + 1 < Message(d).request
      BY <1>1, <2>3, <2>4, <3>1, NextByteIs
    <3>2. CASE ~(d.k + 1 < Message(d).request)
      <4>1. p2 = [d EXCEPT !.k = 0, !.pc = "write"]
        BY <1>1, <2>4, <3>2
      <4>2. p2 \in Children
        BY <2>3, <4>1 DEF Children, PCs
      <4> QED
        BY <2>3, <3>2, <4>1, <4>2 DEF Children
    <3> QED
      BY <3>1, <3>2
  <2>6. q # << >>
    BY <1>1, <1>4
  <2>7. Tail(q) \in Seq(Nat) /\ Agree(requester, p2, Tail(q), a)
    BY <1>1, <2>1, <2>2, <2>3, <2>5, <2>6, AgreeFetched
  <2> QED
    BY <2>4, <2>5, <2>7
<1>6. /\ pipe' \in [Pipes -> Seq(Nat)] /\ pipe'["requests"] = Tail(q)
      /\ pipe'["responses"] = a /\ \A c \in Pipes : Len(pipe'[c]) <= room[c]
  <2>1. "requests" # "responses"
    OBVIOUS
  <2> QED
    BY <1>1, <1>2, <1>4, <1>5, <2>1, PipesAre, ConsumeGood
<1>7. PTypeOK'
  BY <1>1, <1>2, <1>5, <1>6 DEF PTypeOK
<1>8. Lifetimes'
  BY <1>1, <1>2, <1>3, <1>5 DEF Lifetimes, Intact, Ended
<1>9. Agreed'
  BY <1>1, <1>5, <1>6 DEF Agreed
<1>10. BatchesFitted'
  BY <1>1, <1>3 DEF BatchesFitted, Written, FitsPipes
<1> QED
  BY <1>7, <1>8, <1>9, <1>10 DEF PipeInv

\* The responder writes a byte of the reply.
LEMMA ResponderWritesGood == ASSUME PipeInv, ResponderWrites PROVE PipeInv'
<1>1. /\ responder.pc = "write" /\ CanWrite("responses")
      /\ responder' = IF responder.k + 1 < Message(responder).response
                      THEN NextByte(responder) ELSE Answered(responder)
      /\ Put("responses", Byte(responder.buf, responder.k))
      /\ UNCHANGED <<room, requester, parent, reaped, status>>
  BY DEF ResponderWrites
<1>2. PTypeOK /\ Lifetimes
  BY DEF PipeInv
<1>3. Intact /\ Agreed /\ BatchesFitted
  BY <1>1, LivingAreIntact DEF PipeInv, Ended
<1>4. PICK q \in Seq(Nat), a \in Seq(Nat), b \in {Byte(responder.buf, responder.k)} :
          q = pipe["requests"] /\ a = pipe["responses"]
  BY <1>2, PipesAre DEF PTypeOK
<1>5. /\ responder' \in Children /\ Append(a, b) \in Seq(Nat)
      /\ responder'.pc \in {"write", "read", "done"}
      /\ Agree(requester, responder', q, Append(a, b))
  <2>1. requester \in Children /\ responder \in Children
    BY <1>2 DEF PTypeOK
  <2>2. Agree(requester, responder, q, a)
    BY <1>3, <1>4 DEF Agreed
  <2> QED
    BY <1>1, <1>4, <2>1, <2>2, AgreeAnswered
<1>6. /\ pipe' \in [Pipes -> Seq(Nat)] /\ pipe'["responses"] = Append(a, b)
      /\ pipe'["requests"] = q /\ \A d \in Pipes : Len(pipe'[d]) <= room[d]
  <2>1. Len(pipe["responses"]) < room["responses"]
    BY <1>1 DEF CanWrite
  <2>2. "requests" # "responses"
    OBVIOUS
  <2> QED
    BY <1>1, <1>2, <1>4, <1>5, <2>1, <2>2, PipesAre, PutGood
<1>7. PTypeOK'
  BY <1>1, <1>2, <1>5, <1>6 DEF PTypeOK
<1>8. Lifetimes'
  BY <1>1, <1>2, <1>3, <1>5 DEF Lifetimes, Intact, Ended
<1>9. Agreed'
  BY <1>1, <1>5, <1>6 DEF Agreed
<1>10. BatchesFitted'
  BY <1>1, <1>3 DEF BatchesFitted, Written, FitsPipes
<1> QED
  BY <1>7, <1>8, <1>9, <1>10 DEF PipeInv

\* A child dies of a pipe whose other end has gone: main() has ended, and the
\* other child was never born.
LEMMA DiesGood ==
    ASSUME PipeInv, NEW c \in {1, 2}, BrokenPipe(c) \/ EndOfPipe(c)
    PROVE  PipeInv'
<1>1. PTypeOK /\ Lifetimes
  BY DEF PipeInv
<1>2. UNCHANGED <<room, pipe, parent, reaped, status>>
  BY DEF BrokenPipe, EndOfPipe
<1>3. Child(c).pc \in {"read", "write"}
  BY DEF BrokenPipe, EndOfPipe
<1>4. parent = "exited"
  BY DEF BrokenPipe, EndOfPipe, HasReader, HasWriter
<1>5. c = 1 /\ responder.pc = "unborn" /\ requester.pc \in {"read", "write"}
  BY <1>1, <1>3, <1>4 DEF Lifetimes, Child, Ended
<1>6. PICK goal \in {"aborted", "killed"} :
          requester' = [requester EXCEPT !.pc = goal] /\ responder' = responder
  BY <1>5 DEF BrokenPipe, EndOfPipe, SetPc
<1>7. requester' \in Children /\ requester'.pc = goal
  <2>1. requester \in Children /\ goal \in PCs \cup Ended
    BY <1>1 DEF PTypeOK, Ended
  <2> QED
    BY <1>6, <2>1, WithPc
<1>8. PTypeOK'
  BY <1>1, <1>2, <1>6, <1>7 DEF PTypeOK
<1>9. Lifetimes'
  BY <1>1, <1>2, <1>4, <1>5, <1>6, <1>7 DEF Lifetimes, Ended
<1>10. ~Intact'
  BY <1>7 DEF Intact
<1> QED
  BY <1>8, <1>9, <1>10 DEF PipeInv

\* A child is born, or closes the ends that are not its own.
LEMMA BirthGood ==
    ASSUME PipeInv, NEW c \in {1, 2}, Fork(c) \/ Begin(c)
    PROVE  PipeInv'
<1>1. PTypeOK /\ Lifetimes
  BY DEF PipeInv
<1>2. UNCHANGED <<room, pipe, reaped, status>>
  BY DEF Fork, Begin
<1>3. requester \in Children /\ responder \in Children
  BY <1>1 DEF PTypeOK
<1>4. CASE c = 1
  <2>1. PICK goal \in {"start", "write"} :
            requester' = [requester EXCEPT !.pc = goal] /\ responder' = responder
    BY <1>4 DEF Fork, Begin, SetPc
  <2>2. /\ requester.pc \in {"unborn", "start"}
        /\ requester.pc = "unborn" => parent = "fork1" /\ parent' = "fork2"
        /\ requester.pc = "start" => parent' = parent \/ (parent = "fork1" /\ parent' = "fork2")
    BY <1>1, <1>4 DEF Fork, Begin, Lifetimes, Child
  <2>3. requester' \in Children /\ requester'.pc = goal /\ requester'.phase = requester.phase
    <3>1. goal \in PCs \cup Ended
      BY DEF PCs
    <3> QED
      BY <1>3, <2>1, <3>1, WithPc
  <2>4. PTypeOK'
    BY <1>1, <1>2, <2>1, <2>2, <2>3 DEF PTypeOK
  <2>5. Lifetimes'
    BY <1>1, <1>2, <2>1, <2>2, <2>3 DEF Lifetimes, Ended
  <2>6. ASSUME Intact' PROVE Agreed' /\ BatchesFitted'
    <3>1. Agreed /\ BatchesFitted
      BY <2>1, <2>2, <2>6 DEF PipeInv, Intact
    <3>2. Agreed'
      BY <1>2, <1>3, <2>1, <2>2, <3>1, AgreeBegins DEF Agreed
    <3>3. BatchesFitted'
      BY <1>2, <2>2, <2>3, <3>1 DEF BatchesFitted, Written, FitsPipes
    <3> QED
      BY <3>2, <3>3
  <2> QED
    BY <2>4, <2>5, <2>6 DEF PipeInv
<1>5. CASE c = 2
  <2>1. PICK goal \in {"start", "read"} :
            responder' = [responder EXCEPT !.pc = goal] /\ requester' = requester
    BY <1>5 DEF Fork, Begin, SetPc
  <2>2. /\ responder.pc \in {"unborn", "start"}
        /\ responder.pc = "unborn" => parent = "fork2" /\ parent' = "poll"
        /\ responder.pc = "start" => parent' = parent
    BY <1>1, <1>5 DEF Fork, Begin, Lifetimes, Child
  <2>3. responder' \in Children /\ responder'.pc = goal
    <3>1. goal \in PCs \cup Ended
      BY DEF PCs
    <3> QED
      BY <1>3, <2>1, <3>1, WithPc
  <2>4. PTypeOK'
    BY <1>1, <1>2, <2>1, <2>2, <2>3 DEF PTypeOK
  <2>5. Lifetimes'
    BY <1>1, <1>2, <2>1, <2>2, <2>3 DEF Lifetimes, Ended
  <2>6. ASSUME Intact' PROVE Agreed' /\ BatchesFitted'
    <3>1. Agreed /\ BatchesFitted
      BY <2>1, <2>2, <2>6 DEF PipeInv, Intact
    <3>2. Agreed'
      BY <1>2, <1>3, <2>1, <2>2, <3>1, AgreeBegins DEF Agreed
    <3>3. BatchesFitted'
      BY <1>2, <2>1, <3>1 DEF BatchesFitted, Written, FitsPipes
    <3> QED
      BY <3>2, <3>3
  <2> QED
    BY <2>4, <2>5, <2>6 DEF PipeInv
<1> QED
  BY <1>4, <1>5

\* main() looks for deaths, and ends.
LEMMA ParentGood ==
    ASSUME PipeInv, ForkFails \/ BothDead \/ \E c \in {1, 2} : Reap(c)
    PROVE  PipeInv'
<1>1. PTypeOK /\ Lifetimes
  BY DEF PipeInv
<1>2. UNCHANGED <<room, pipe, requester, responder>>
  BY DEF ForkFails, BothDead, Reap
<1>3. PTypeOK'
  BY <1>1, <1>2 DEF PTypeOK, ForkFails, BothDead, Reap, ParentExits
<1>4. Lifetimes'
  <2>1. CASE ForkFails
    BY <1>1, <1>2, <2>1 DEF ForkFails, Lifetimes
  <2>2. CASE BothDead
    <3>1. requester.pc = "done" /\ responder.pc = "done"
      BY <1>1, <2>2 DEF BothDead, Lifetimes, Ended
    <3> QED
      BY <1>1, <1>2, <2>2, <3>1 DEF BothDead, Lifetimes, ParentExits, Ended
  <2>3. ASSUME NEW c \in {1, 2}, Reap(c) PROVE Lifetimes'
    BY <1>1, <1>2, <2>3 DEF Reap, Lifetimes, Child
  <2> QED
    BY <2>1, <2>2, <2>3
<1>5. (Intact => Agreed /\ BatchesFitted)'
  BY <1>2 DEF PipeInv, Intact, Agreed, BatchesFitted, Written, FitsPipes
<1> QED
  BY <1>3, <1>4, <1>5 DEF PipeInv

\* main() kills those it has not seen dead.
LEMMA GiveUpGood == ASSUME PipeInv, GiveUp PROVE PipeInv'
<1>1. PTypeOK /\ Lifetimes
  BY DEF PipeInv
<1>2. /\ parent = "poll" /\ parent' = "exited" /\ status' = 1
      /\ UNCHANGED <<room, pipe, reaped>>
  BY DEF GiveUp, ParentExits
<1>3. ASSUME NEW c \in Children
      PROVE  /\ Killed(c) \in Children /\ Killed(c).pc \in Ended
             /\ Killed(c) = c \/ Killed(c).pc = "killed"
             /\ c.pc # "aborted" => Killed(c).pc # "aborted"
  <2>1. CASE c.pc \in Ended
    BY <2>1 DEF Killed
  <2>2. CASE c.pc \notin Ended
    <3>1. "killed" \in PCs \cup Ended /\ Killed(c) = [c EXCEPT !.pc = "killed"]
      BY <2>2 DEF Ended, Killed
    <3>2. Killed(c) \in Children /\ Killed(c).pc = "killed"
      BY <3>1, WithPc
    <3> QED
      BY <3>2 DEF Ended
  <2> QED
    BY <2>1, <2>2
<1>4. /\ requester' \in Children /\ requester'.pc \in Ended
      /\ requester' = requester \/ requester'.pc = "killed"
      /\ requester'.pc # "aborted"
  <2>1. requester \in Children /\ requester.pc # "aborted" /\ (1 \in reaped => requester.pc \in Ended)
    BY <1>1, <1>2 DEF PTypeOK, Lifetimes
  <2> QED
    BY <1>3, <2>1 DEF GiveUp
<1>5. /\ responder' \in Children /\ responder'.pc \in Ended
      /\ responder' = responder \/ responder'.pc = "killed"
      /\ responder'.pc # "aborted"
  <2>1. responder \in Children /\ responder.pc # "aborted" /\ (2 \in reaped => responder.pc \in Ended)
    BY <1>1, <1>2 DEF PTypeOK, Lifetimes
  <2> QED
    BY <1>3, <2>1 DEF GiveUp
<1>6. PTypeOK'
  BY <1>1, <1>2, <1>4, <1>5 DEF PTypeOK
<1>7. Lifetimes'
  BY <1>1, <1>2, <1>4, <1>5 DEF Lifetimes
<1>8. ASSUME Intact' PROVE Agreed' /\ BatchesFitted'
  <2>1. requester' = requester /\ responder' = responder
    BY <1>4, <1>5, <1>8 DEF Intact
  <2>2. Agreed /\ BatchesFitted
    BY <1>8, <2>1 DEF PipeInv, Intact
  <2> QED
    BY <1>2, <2>1, <2>2 DEF Agreed, BatchesFitted, Written, FitsPipes
<1> QED
  BY <1>6, <1>7, <1>8 DEF PipeInv

\* Every step of the children and of main() keeps the invariant.
LEMMA PipeNext == PipeInv /\ [PNext]_pvars => PipeInv'
<1> SUFFICES ASSUME PipeInv, [PNext]_pvars PROVE PipeInv'
  OBVIOUS
<1>1. CASE UNCHANGED pvars
  BY <1>1 DEF pvars, PipeInv, PTypeOK, Lifetimes, Intact, Agreed, BatchesFitted, Written, FitsPipes
<1>2. CASE Forks \/ Polls
  <2>1. ForkFails \/ BothDead \/ GiveUp \/ (\E c \in {1, 2} : Fork(c)) \/ \E c \in {1, 2} : Reap(c)
    BY <1>2 DEF Forks, Polls
  <2> QED
    BY <2>1, BirthGood, ParentGood, GiveUpGood
<1>3. ASSUME NEW c \in {1, 2}, ChildStep(c) PROVE PipeInv'
  <2>1. \/ Begin(c) \/ BrokenPipe(c) \/ EndOfPipe(c)
        \/ RequesterWrites \/ RequesterReads \/ ResponderReads \/ ResponderWrites
    BY <1>3 DEF ChildStep
  <2> QED
    BY <2>1, BirthGood, DiesGood, RequesterWritesGood, RequesterReadsGood,
       ResponderReadsGood, ResponderWritesGood
<1> QED
  BY <1>1, <1>2, <1>3 DEF PNext

\* The invariant holds in every behaviour.
LEMMA PipeInvHolds == PSpec => []PipeInv
BY PipeInit, PipeNext, PTL DEF PSpec

-----------------------------------------------------------------------------
(* The theorems.                                                           *)

\* The assertions of both children hold (AssertionsHold, pipeexchange61.cc:73, 79,
\* 81, 104), whatever the batches, the sizes of the messages and the pipes, and
\* however the two are interleaved: replies come back whole and in order, and only
\* a requester whose partner was never forked meets the end of a pipe.
THEOREM RepliesComeInOrder == PSpec => []AssertionsHold
<1>1. PipeInv => AssertionsHold
  BY DEF PipeInv, Lifetimes, AssertionsHold
<1> QED
  BY <1>1, PipeInvHolds, PTL

\* Before the far end of a batch's requests or replies there is something to read.
LEMMA SomethingLeft ==
    ASSUME NEW q \in Seq(Nat), NEW l \in Nat \ {0}, NEW b, NEW n \in Nat, NEW i \in Nat, NEW k,
           i < n, Holds(q, <<i, k>>, <<n, 0>>, l, b), k \in Nat
    PROVE  q # << >>
<1>1. PICK x, y : x = <<i, k>> /\ y = <<n, 0>>
  OBVIOUS
<1>2. x \in Nat \X Nat /\ y \in Nat \X Nat /\ x # y /\ Holds(q, x, y, l, b) /\ l \in Nat
  BY <1>1
<1> QED
  BY <1>2, HoldsClosed

\* When nobody can move, both pipes are full.
LEMMA StuckMeansFull ==
    ASSUME PipeInv, Stuck
    PROVE  /\ requester.pc = "write" /\ responder.pc = "write"
           /\ room["requests"] <= Len(pipe["requests"])
           /\ room["responses"] <= Len(pipe["responses"])
<1>1. requester.pc \in {"read", "write"} /\ responder.pc \in {"read", "write"}
  BY DEF Stuck, Child
<1>2. PTypeOK /\ Intact /\ Agreed
  BY <1>1, LivingAreIntact DEF PipeInv, Ended
<1>3. PICK r \in Children, p \in Children : r = requester /\ p = responder
  BY <1>2 DEF PTypeOK
<1>4. PICK q \in Seq(Nat), a \in Seq(Nat), Q \in Nat \ {0}, R \in Nat \ {0} :
          /\ q = pipe["requests"] /\ a = pipe["responses"]
          /\ Q = room["requests"] /\ R = room["responses"]
  BY <1>2, PipesAre DEF PTypeOK
<1>5. Agree(r, p, q, a)
  BY <1>2, <1>3, <1>4 DEF Agreed
<1>6. HasReader("requests") /\ HasReader("responses")
  BY <1>1 DEF HasReader, Lives, Ended
<1>7. Len(q) \in Nat /\ Len(a) \in Nat
  OBVIOUS
<1>8. /\ r.pc = "write" => Q <= Len(q)
      /\ p.pc = "write" => R <= Len(a)
      /\ r.pc = "read" => a = << >>
      /\ p.pc = "read" => q = << >>
  <2>1. /\ Child(1) = r /\ Child(2) = p /\ WritesTo(1) = "requests" /\ WritesTo(2) = "responses"
        /\ ReadsFrom(1) = "responses" /\ ReadsFrom(2) = "requests"
    BY <1>3 DEF Child, WritesTo, ReadsFrom
  <2>2. /\ r.pc = "write" => ~CanWrite("requests")
        /\ p.pc = "write" => ~CanWrite("responses")
        /\ r.pc # "write" => ~CanRead("responses")
        /\ p.pc # "write" => ~CanRead("requests")
    BY <2>1 DEF Stuck
  <2> QED
    BY <1>4, <1>6, <1>7, <2>2 DEF CanWrite, CanRead
<1>9. p.pc = "write"
  <2> SUFFICES ASSUME p.pc = "read" PROVE FALSE
    BY <1>1, <1>3
  <2>1. r.pc = "read"
    <3>1. Len(q) = 0
      BY <1>8
    <3> QED
      BY <1>1, <1>3, <1>4, <1>8, <3>1
  <2>2. q = << >> /\ a = << >>
    BY <1>8, <2>1
  <2>3. PICK n \in Nat, l \in Nat \ {0}, s \in Nat \ {0} :
            n = Message(r).batch /\ l = Message(r).request /\ s = Message(r).response
    BY MessageSizes
  <2>4. CASE Through(r, p)
    <3>1. Holds(a, <<r.i, r.k>>, <<n, 0>>, s, First(r))
      BY <1>5, <2>1, <2>3, <2>4 DEF Agree, Between, ReplyCursor, AnswerCursor
    <3>2. r.i \in Nat /\ r.k \in Nat /\ r.i < n
      BY <1>5, <2>1, <2>3 DEF Agree, Requesting, Children
    <3> QED
      BY <2>2, <3>1, <3>2, SomethingLeft
  <2>5. CASE ~Through(r, p)
    <3>1. Holds(q, <<p.i, p.k>>, <<n, 0>>, l, First(r))
      BY <1>5, <2>1, <2>3, <2>5 DEF Agree, Between, WriteCursor, RequestCursor
    <3>2. Message(p).batch = n
      BY <1>5, <2>3, <2>5 DEF Agree, InPhase, Through, Message
    <3>3. p.i \in Nat /\ p.k \in Nat /\ p.i < n
      BY <1>5, <3>2 DEF Agree, Responding, Children
    <3> QED
      BY <2>2, <3>1, <3>3, SomethingLeft
  <2> QED
    BY <2>4, <2>5
<1>10. r.pc = "write"
  <2>1. r.pc # "read"
    <3> SUFFICES ASSUME r.pc = "read" PROVE FALSE
      OBVIOUS
    <3>1. Len(a) = 0
      BY <1>8
    <3> QED
      BY <1>4, <1>8, <1>9, <3>1
  <2> QED
    BY <1>1, <1>3, <2>1
<1> QED
  BY <1>3, <1>4, <1>8, <1>9, <1>10

\* The exchange deadlocks only in a phase whose batch is beyond both pipes
\* (StuckOnlyWhenTooLarge, pipeexchange61.cc:25-31), for every table of phases and
\* every capacity of the pipes; the limit is exact.
THEOREM OnlyTooLargeDeadlocks == PSpec => []StuckOnlyWhenTooLarge
<1>1. ASSUME PipeInv, Stuck PROVE ~FitsPipes(Message(requester))
  <2>1. /\ requester.pc = "write" /\ responder.pc = "write"
        /\ room["requests"] <= Len(pipe["requests"])
        /\ room["responses"] <= Len(pipe["responses"])
    BY <1>1, StuckMeansFull
  <2>2. PTypeOK /\ Intact /\ Agreed
    BY <1>1, <2>1, LivingAreIntact DEF PipeInv, Ended
  <2>3. PICK r \in Children, p \in Children : r = requester /\ p = responder
    BY <2>2 DEF PTypeOK
  <2>4. PICK q \in Seq(Nat), a \in Seq(Nat), Q \in Nat, R \in Nat :
            /\ q = pipe["requests"] /\ a = pipe["responses"]
            /\ Q = room["requests"] /\ R = room["responses"]
    BY <2>2, PipesAre DEF PTypeOK
  <2>5. Agree(r, p, q, a)
    BY <2>2, <2>3, <2>4 DEF Agreed
  <2>6. PICK n \in Nat, l \in Nat \ {0}, s \in Nat \ {0} :
            n = Message(r).batch /\ l = Message(r).request /\ s = Message(r).response
    BY MessageSizes
  <2>7. r.i \in Nat /\ r.k \in Nat /\ p.i \in Nat /\ p.k \in Nat
    BY DEF Children
  <2>8. ~Through(r, p) /\ Message(p) = Message(r)
    BY <2>1, <2>3, <2>5 DEF Agree, InPhase, Through, Message
  <2>9. r.i < n /\ r.k < l /\ p.k < s
    BY <2>1, <2>3, <2>5, <2>6, <2>8 DEF Agree, Requesting, Responding
  <2>10. /\ WriteCursor(r) = <<r.i, r.k>> /\ RequestCursor(r, p) = <<p.i + 1, 0>>
         /\ ReplyCursor(r) = <<0, 0>> /\ AnswerCursor(r, p) = <<p.i, p.k>>
    BY <2>1, <2>3, <2>8 DEF WriteCursor, RequestCursor, ReplyCursor, AnswerCursor
  <2>11. R <= p.i * s + p.k
    <3>1. p.i * s + p.k = (0 * s + 0) + Len(a)
      BY <2>5, <2>6, <2>10 DEF Agree, Between, Holds, BytesBefore
    <3>2. 0 * s + 0 = 0 /\ Len(a) \in Nat /\ R <= Len(a)
      BY <2>1, <2>4
    <3> QED
      BY <3>1, <3>2
  <2>12. (p.i + 1) * l + Q <= r.i * l + r.k
    <3>1. r.i * l + r.k = ((p.i + 1) * l + 0) + Len(q)
      BY <2>5, <2>6, <2>10 DEF Agree, Between, Holds, BytesBefore
    <3>2. Len(q) \in Nat /\ Q <= Len(q)
      BY <2>1, <2>4
    <3>3. (p.i + 1) * l \in Nat
      BY <2>7
    <3> QED
      BY <3>1, <3>2, <3>3
  <2>13. r.i * l + r.k < n * l /\ r.i * l + r.k \in Nat
    <3>1. BytesBefore(<<r.i, r.k>>, l) < BytesBefore(<<n, 0>>, l)
      BY <2>7, <2>9, BeforeInside
    <3>2. r.i * l + r.k < n * l + 0
      BY <3>1 DEF BytesBefore
    <3>3. r.i * l \in Nat /\ n * l \in Nat
      BY <2>7
    <3> QED
      BY <2>7, <3>2, <3>3
  <2>14. ~((R \div s + 1) * l + Q >= n * l)
    BY <2>7, <2>9, <2>11, <2>12, <2>13, NotFitting
  <2> QED
    BY <2>3, <2>4, <2>6, <2>14 DEF FitsPipes
<1>2. PipeInv => StuckOnlyWhenTooLarge
  BY <1>1 DEF StuckOnlyWhenTooLarge
<1> QED
  BY <1>2, PipeInvHolds, PTL

\* main() exits with status 0 only if both children have finished, every reply
\* has been read, the pipes are empty and every batch fitted in them
\* (ZeroMeansComplete, pipeexchange61.cc:150-173).
THEOREM ZeroIsComplete == PSpec => []ZeroMeansComplete
<1>1. ASSUME PipeInv, status = 0
      PROVE  /\ requester.pc = "done" /\ responder.pc = "done"
             /\ requester.replies = requester.id
             /\ \A c \in Pipes : pipe[c] = << >>
             /\ \A n \in 1 .. NumPhases : FitsPipes(Phases[n])
  <2>1. requester.pc = "done" /\ responder.pc = "done"
    BY <1>1 DEF PipeInv, Lifetimes
  <2>2. PTypeOK /\ Agreed /\ BatchesFitted
    BY <1>1, <2>1 DEF PipeInv, Intact
  <2>3. PICK r \in Children, p \in Children : r = requester /\ p = responder
    BY <2>2 DEF PTypeOK
  <2>4. PICK q \in Seq(Nat), a \in Seq(Nat) : q = pipe["requests"] /\ a = pipe["responses"]
    BY <2>2, PipesAre DEF PTypeOK
  <2>5. Agree(r, p, q, a)
    BY <2>2, <2>3, <2>4 DEF Agreed
  <2>6. /\ r.i = 0 /\ r.k = 0 /\ p.i = 0 /\ p.k = 0 /\ r.phase = NumPhases /\ p.phase = NumPhases
        /\ r.pc = "done" /\ p.pc = "done"
    BY <2>1, <2>3, <2>5 DEF Agree, Requesting, Responding, Idle
  <2>7. ~Through(r, p)
    BY <2>6, PhasesKnown DEF Through
  <2>8. /\ WriteCursor(r) = <<0, 0>> /\ ReplyCursor(r) = <<0, 0>> /\ First(r) = r.replies
        /\ RequestCursor(r, p) = <<0, 0>> /\ AnswerCursor(r, p) = <<0, 0>>
    BY <2>6, <2>7 DEF WriteCursor, ReplyCursor, First, RequestCursor, AnswerCursor
  <2>9. q = << >> /\ a = << >>
    <3>1. Holds(q, <<0, 0>>, <<0, 0>>, Message(r).request, First(r))
      BY <2>5, <2>8 DEF Agree, Between
    <3>2. Holds(a, <<0, 0>>, <<0, 0>>, Message(r).response, First(r))
      BY <2>5, <2>8 DEF Agree, Between
    <3>3. Message(r).request \in Nat /\ Message(r).response \in Nat
      BY MessageSizes
    <3>4. PICK x \in Nat \X Nat : x = <<0, 0>>
      OBVIOUS
    <3> QED
      BY <3>1, <3>2, <3>3, <3>4, HoldsClosed
  <2>10. r.replies = r.id
    <3>1. r.id = r.replies + 0 /\ r.replies \in Nat
      BY <2>5, <2>8 DEF Agree, Requesting, Children
    <3> QED
      BY <3>1
  <2>11. \A n \in 1 .. NumPhases : FitsPipes(Phases[n])
    <3>1. \A n \in 1 .. NumPhases : Written(n)
      BY <2>3, <2>6, PhasesKnown DEF Written
    <3> QED
      BY <2>2, <3>1 DEF BatchesFitted
  <2> QED
    BY <2>1, <2>3, <2>4, <2>9, <2>10, <2>11, PipesAre
<1>2. PipeInv => ZeroMeansComplete
  BY <1>1 DEF ZeroMeansComplete
<1> QED
  BY <1>2, PipeInvHolds, PTL

-----------------------------------------------------------------------------
(* The arguments.                                                          *)

ArgTypes == [size : Nat \cup {-1}, block : Nat, stride : Nat \ {0}, lines : BOOLEAN,
             inputs : Nat, outputs : Nat, usage : BOOLEAN]

\* A program without -s has no size.
ArgsOf == {a \in ArgTypes : "s" \notin Options[Program] => a.size = -1}

LEMMA ParseIs ==
    ASSUME NEW a \in ArgsOf, NEW o \in [opt : STRING, val : Nat]
    PROVE  Parse(a, o) \in ArgsOf
<1>1. a \in ArgTypes /\ ("s" \notin Options[Program] => a.size = -1)
  BY DEF ArgsOf
<1>2. CASE a.usage \/ o.opt \notin Options[Program] \/ (o.opt \in {"b", "t"} /\ o.val = 0)
  <2>1. Parse(a, o) = [a EXCEPT !.usage = TRUE]
    BY <1>2 DEF Parse
  <2> QED
    BY <1>1, <2>1 DEF ArgTypes, ArgsOf
<1>3. CASE ~(a.usage \/ o.opt \notin Options[Program] \/ (o.opt \in {"b", "t"} /\ o.val = 0))
  <2>1. o.opt \in Options[Program] /\ o.val \in Nat /\ (o.opt \in {"b", "t"} => o.val # 0)
    BY <1>3
  <2>2. CASE o.opt = "s"
    <3>1. Parse(a, o) = [a EXCEPT !.size = o.val]
      BY <1>3, <2>2 DEF Parse
    <3> QED
      BY <1>1, <2>1, <2>2, <3>1 DEF ArgTypes, ArgsOf
  <2>3. CASE o.opt = "b"
    <3>1. Parse(a, o) = [a EXCEPT !.block = o.val]
      BY <1>3, <2>3 DEF Parse
    <3> QED
      BY <1>1, <2>1, <2>3, <3>1 DEF ArgTypes, ArgsOf
  <2>4. CASE o.opt = "t"
    <3>1. Parse(a, o) = [a EXCEPT !.stride = o.val]
      BY <1>3, <2>4 DEF Parse
    <3> QED
      BY <1>1, <2>1, <2>4, <3>1 DEF ArgTypes, ArgsOf
  <2>5. CASE o.opt = "l"
    <3>1. Parse(a, o) = [a EXCEPT !.lines = TRUE]
      BY <1>3, <2>5 DEF Parse
    <3> QED
      BY <1>1, <3>1 DEF ArgTypes, ArgsOf
  <2>6. CASE o.opt = "i"
    <3>1. Parse(a, o) = [a EXCEPT !.inputs = @ + 1]
      BY <1>3, <2>6 DEF Parse
    <3> QED
      BY <1>1, <3>1 DEF ArgTypes, ArgsOf
  <2>7. CASE o.opt = "o"
    <3>1. Parse(a, o) = [a EXCEPT !.outputs = @ + 1]
      BY <1>3, <2>7 DEF Parse
    <3> QED
      BY <1>1, <3>1 DEF ArgTypes, ArgsOf
  <2>8. CASE o.opt \notin {"s", "b", "t", "l", "i", "o"}
    <3>1. Parse(a, o) = a
      BY <1>3, <2>8 DEF Parse
    <3> QED
      BY <3>1
  <2> QED
    BY <2>2, <2>3, <2>4, <2>5, <2>6, <2>7, <2>8
<1> QED
  BY <1>2, <1>3

\* The larger of two numbers.
LEMMA MaxOfTwo ==
    ASSUME NEW a \in Int, NEW b \in Int
    PROVE  Max({a, b}) = IF a >= b THEN a ELSE b
<1>1. \E x \in {a, b} : \A y \in {a, b} : x >= y
  OBVIOUS
<1>2. PICK m : m = Max({a, b})
  OBVIOUS
<1>3. m \in {a, b} /\ \A y \in {a, b} : m >= y
  BY <1>1, <1>2 DEF Max
<1> QED
  BY <1>2, <1>3

\* What the getopt() loop makes of any options.
LEMMA ParseAllIs ==
    ASSUME NEW options \in Seq([opt : STRING, val : Nat])
    PROVE  ParseAll(options) \in ArgsOf
<1> DEFINE N == Len(options)
<1>0. N \in Nat /\ \A n \in 1 .. N : options[n] \in [opt : STRING, val : Nat]
  <2>1. PICK X : X = [opt : STRING, val : Nat]
    OBVIOUS
  <2>2. options \in Seq(X)
    BY <2>1
  <2>3. N \in Nat /\ \A n \in 1 .. N : options[n] \in X
    BY <2>2
  <2> QED
    BY <2>1, <2>3
<1>8. PICK g : /\ g = CHOOSE a :
                        a = [n \in 0 .. N |-> IF n = 0 THEN Defaults
                                              ELSE Parse(a[n - 1], options[n])]
               /\ ParseAll(options) = g[N]
  BY DEF ParseAll
<1> HIDE DEF N
<1>1. PICK h : h = [n \in 1 .. N |-> [a \in ArgsOf |-> Parse(a, options[n])]]
  OBVIOUS
<1>2. Defaults \in ArgsOf
  BY DEF Defaults, ArgsOf, ArgTypes
<1>3. h \in [1 .. N -> [ArgsOf -> ArgsOf]]
  <2>1. \A n \in 1 .. N, a \in ArgsOf : Parse(a, options[n]) \in ArgsOf
    BY <1>0, ParseIs
  <2> QED
    BY <1>1, <2>1
<1>4. PICK f : Folds(f, h, Defaults, N, ArgsOf)
  BY <1>0, <1>2, <1>3, FoldExists
<1>5. f \in [0 .. N -> ArgsOf] /\ f[0] = Defaults
  BY <1>4 DEF Folds
<1>6. ASSUME NEW n \in 1 .. N PROVE f[n] = Parse(f[n - 1], options[n])
  <2>1. n - 1 \in 0 .. N /\ f[n] = h[n][f[n - 1]]
    BY <1>0, <1>4 DEF Folds
  <2>2. f[n - 1] \in ArgsOf
    BY <1>5, <2>1
  <2> QED
    BY <1>1, <2>1, <2>2
<1>7. f = [n \in 0 .. N |-> IF n = 0 THEN Defaults ELSE Parse(f[n - 1], options[n])]
  <2>1. ASSUME NEW n \in 0 .. N
        PROVE  f[n] = IF n = 0 THEN Defaults ELSE Parse(f[n - 1], options[n])
    <3>1. n # 0 => n \in 1 .. N
      BY <1>0
    <3> QED
      BY <1>5, <1>6, <3>1
  <2> QED
    BY <1>5, <2>1
<1>9. g = [n \in 0 .. N |-> IF n = 0 THEN Defaults ELSE Parse(g[n - 1], options[n])]
  BY <1>7, <1>8
<1> DEFINE S == {n \in 0 .. N : g[n] \in ArgsOf}
<1>12. 0 \in S
  BY <1>0, <1>2, <1>9
<1>10. N \in Nat
  BY <1>0
<1>11. \A n \in 0 .. N - 1 : n + 1 \in 1 .. N /\ (n + 1) - 1 = n /\ n + 1 \in 0 .. N
  BY <1>10
<1>13. ASSUME NEW n \in 0 .. N - 1, n \in S PROVE n + 1 \in S
  <2>1. n + 1 \in 1 .. N /\ (n + 1) - 1 = n /\ n + 1 \in 0 .. N
    BY <1>11
  <2>2. g[n + 1] = Parse(g[n], options[n + 1])
    <3>1. \A m \in 0 .. N : g[m] = IF m = 0 THEN Defaults ELSE Parse(g[m - 1], options[m])
      BY <1>9
    <3>2. n + 1 # 0
      OBVIOUS
    <3> QED
      BY <2>1, <3>1, <3>2
  <2>3. g[n] \in ArgsOf
    BY <1>13
  <2>4. options[n + 1] \in [opt : STRING, val : Nat]
    BY <1>0, <2>1
  <2> QED
    BY <2>1, <2>2, <2>3, <2>4, ParseIs
<1> HIDE DEF S
<1>14. \A n \in 0 .. N : n \in S
  BY <1>0, <1>12, <1>13, UpTo
<1>15. g[N] \in ArgsOf
  BY <1>0, <1>14 DEF S
<1> QED
  BY <1>8, <1>15

\* Arguments a program goes on with.
Usable == /\ args \in ArgTypes
          /\ "s" \notin Options[Program] => args.size = -1
          /\ args.inputs # 0 /\ args.outputs # 0
          /\ Program # "gather" => args.inputs = 1 /\ args.outputs = 1

LEMMA ArgumentsAreUsable ==
    ASSUME command \in Commands, ParseArguments, pc' = "open"
    PROVE  Usable'
<1>1. command.options \in Seq([opt : STRING, val : Nat])
  BY CatAssumption
<1>2. PICK a : a = ParseAll(command.options)
  OBVIOUS
<1>3. a \in ArgTypes /\ ("s" \notin Options[Program] => a.size = -1)
  BY <1>1, <1>2, ParseAllIs DEF ArgsOf
<1>4. args' = Checked(a) /\ ~args'.usage /\ command' = command
  BY <1>2 DEF ParseArguments
<1>5. PICK i, o : i = Max({1, a.inputs}) /\ o = Max({1, a.outputs})
  OBVIOUS
<1>6. a.inputs \in Nat /\ a.outputs \in Nat
  BY <1>3 DEF ArgTypes
<1>7. /\ i = IF 1 >= a.inputs THEN 1 ELSE a.inputs
      /\ o = IF 1 >= a.outputs THEN 1 ELSE a.outputs
  BY <1>5, <1>6, MaxOfTwo
<1>8. args' = [a EXCEPT !.usage = a.usage \/ (Program # "gather" /\ (a.inputs > 1 \/ a.outputs > 1)),
                        !.inputs = i, !.outputs = o]
  BY <1>4, <1>5 DEF Checked
<1>9. Program' = Program
  BY <1>4 DEF Program
<1>10. Program # "gather" => ~(a.inputs > 1) /\ ~(a.outputs > 1)
  BY <1>3, <1>4, <1>8 DEF ArgTypes
<1>11. args'.inputs = i /\ args'.outputs = o /\ args'.size = a.size
  BY <1>3, <1>8 DEF ArgTypes
<1>12. args' \in ArgTypes
  BY <1>3, <1>6, <1>7, <1>8 DEF ArgTypes
<1> QED
  BY <1>3, <1>6, <1>7, <1>9, <1>10, <1>11, <1>12 DEF Usable, ArgTypes

-----------------------------------------------------------------------------
(* Files.                                                                  *)

Bytes == Nat \X Nat
InFiles == [name : Nat, data : Seq(Bytes), pos : Nat, seekable : BOOLEAN]
OutFiles == [data : Seq(Bytes), pos : Nat]

LEMMA ReadIs ==
    ASSUME NEW f \in InFiles, NEW n \in Nat
    PROVE  /\ BytesRead(f, n) \in Seq(Bytes)
           /\ Len(BytesRead(f, n)) = IF f.pos >= Len(f.data) THEN 0
                                     ELSE Least(n, Len(f.data) - f.pos)
           /\ BytesRead(f, n) = << >> <=> n = 0 \/ f.pos >= Len(f.data)
           /\ \A i \in 1 .. Len(BytesRead(f, n)) : /\ BytesRead(f, n)[i] = f.data[f.pos + i]
                                                  /\ f.pos + i \in 1 .. Len(f.data)
<1>1. PICK d \in Seq(Bytes), p \in Nat : d = f.data /\ p = f.pos
  BY DEF InFiles
<1>2. PICK a \in Nat, b \in Nat : a = p + 1 /\ b = Least(p + n, Len(d))
  BY DEF Least
<1>3. \A i \in a .. b : d[i] \in Bytes
  <2>1. b <= Len(d) /\ 1 <= a
    BY <1>2 DEF Least
  <2> QED
    BY <2>1
<1>4. PICK s : s = SubSeq(d, a, b)
  OBVIOUS
<1>5. /\ s \in Seq(Bytes) /\ Len(s) = (IF a <= b THEN b - a + 1 ELSE 0)
      /\ \A i \in 1 .. b - a + 1 : s[i] = d[a + i - 1]
  BY <1>3, <1>4, SubSeqProperties
<1>6. BytesRead(f, n) = s
  BY <1>1, <1>2, <1>4 DEF BytesRead
<1>7. Len(s) = IF p >= Len(d) THEN 0 ELSE Least(n, Len(d) - p)
  BY <1>2, <1>5 DEF Least
<1>8. \A i \in 1 .. Len(s) : s[i] = d[p + i] /\ p + i \in 1 .. Len(d)
  <2>1. ASSUME NEW i \in 1 .. Len(s) PROVE s[i] = d[p + i] /\ p + i \in 1 .. Len(d)
    <3>1. i \in 1 .. b - a + 1 /\ a + i - 1 = p + i /\ p + i <= b /\ b <= Len(d)
      BY <1>2, <1>5 DEF Least
    <3> QED
      BY <1>5, <3>1
  <2> QED
    BY <2>1
<1>9. s = << >> <=> n = 0 \/ p >= Len(d)
  <2>1. s = << >> <=> Len(s) = 0
    BY <1>5
  <2>2. Len(d) \in Nat
    OBVIOUS
  <2> QED
    BY <1>7, <2>1, <2>2 DEF Least
<1> QED
  BY <1>1, <1>5, <1>6, <1>7, <1>8, <1>9

\* Nothing is read into no room.
LEMMA ReadNone ==
    ASSUME NEW f \in InFiles, NEW n \in Int, n <= 0
    PROVE  BytesRead(f, n) = << >>
<1>1. PICK d \in Seq(Bytes), p \in Nat : d = f.data /\ p = f.pos
  BY DEF InFiles
<1>2. PICK a \in Int, b \in Int : a = p + 1 /\ b = Least(p + n, Len(d))
  BY <1>1 DEF Least
<1>3. b < a
  BY <1>2 DEF Least
<1>4. SubSeq(d, a, b) = << >>
  BY <1>3, SubSeqEmpty
<1> QED
  BY <1>1, <1>2, <1>4 DEF BytesRead

LEMMA WriteIs ==
    ASSUME NEW f \in OutFiles, NEW s \in Seq(Bytes)
    PROVE  /\ Write(f, s) \in OutFiles
           /\ Write(f, s).pos = f.pos + Len(s)
           /\ Len(Write(f, s).data) = IF s = << >> \/ Len(f.data) >= f.pos + Len(s)
                                      THEN Len(f.data) ELSE f.pos + Len(s)
           /\ \A k \in 1 .. Len(Write(f, s).data) :
                 Write(f, s).data[k] = IF k > f.pos /\ k <= f.pos + Len(s) THEN s[k - f.pos]
                                       ELSE IF k <= Len(f.data) THEN f.data[k] ELSE Hole
<1>1. PICK d \in Seq(Bytes), p \in Nat, l \in Nat, e \in Nat :
              d = f.data /\ p = f.pos /\ l = Len(d) /\ e = p + Len(s)
  BY DEF OutFiles
<1>2. CASE s = << >>
  <2>1. Write(f, s) = f /\ Len(s) = 0
    BY <1>2 DEF Write
  <2>2. \A k \in 1 .. l : ~(k > p /\ k <= p + 0)
    BY <1>1
  <2> QED
    BY <1>1, <1>2, <2>1, <2>2 DEF OutFiles
<1>3. CASE s # << >>
  <2>1. PICK m \in Nat : m = (IF l >= e THEN l ELSE e) /\ Max({l, e}) = m
    <3>1. Max({l, e}) = IF l >= e THEN l ELSE e
      BY <1>1, MaxOfTwo
    <3> QED
      BY <3>1
  <2>2. PICK byte : byte = [k \in 1 .. m |-> IF k > p /\ k <= e THEN s[k - p]
                                             ELSE IF k <= l THEN d[k] ELSE Hole]
    OBVIOUS
  <2>3. Write(f, s) = [f EXCEPT !.data = byte, !.pos = e]
    BY <1>1, <1>3, <2>1, <2>2 DEF Write
  <2>4. \A k \in 1 .. m : byte[k] \in Bytes
    <3>1. ASSUME NEW k \in 1 .. m PROVE byte[k] \in Bytes
      <4>1. CASE k > p /\ k <= e
        <5>1. k - p \in 1 .. Len(s)
          BY <1>1, <4>1
        <5>2. byte[k] = s[k - p]
          BY <2>2, <4>1
        <5> QED
          BY <5>1, <5>2
      <4>2. CASE ~(k > p /\ k <= e) /\ k <= l
        <5>1. byte[k] = d[k]
          BY <2>2, <4>2
        <5> QED
          BY <1>1, <4>2, <5>1
      <4>3. CASE ~(k > p /\ k <= e) /\ ~(k <= l)
        <5>1. byte[k] = Hole
          BY <2>2, <4>3
        <5>2. Hole \in Bytes
          BY DEF Hole, Bytes
        <5> QED
          BY <5>1, <5>2
      <4> QED
        BY <4>1, <4>2, <4>3
    <3> QED
      BY <3>1
  <2>5. byte \in Seq(Bytes) /\ Len(byte) = m
    <3>1. byte \in [1 .. m -> Bytes]
      BY <2>2, <2>4
    <3> QED
      BY <3>1
  <2>6. Write(f, s) \in OutFiles /\ Write(f, s).data = byte /\ Write(f, s).pos = e
    BY <1>1, <2>3, <2>5 DEF OutFiles
  <2>7. Len(byte) = IF s = << >> \/ l >= e THEN l ELSE e
    BY <1>3, <2>1, <2>5
  <2> QED
    BY <1>1, <2>2, <2>5, <2>6, <2>7
<1> QED
  BY <1>2, <1>3

LEMMA PastIs ==
    ASSUME NEW f \in InFiles, NEW s \in Seq(Bytes)
    PROVE  /\ Past(f, s) \in InFiles /\ Past(f, s).pos = f.pos + Len(s)
           /\ Past(f, s).data = f.data /\ Past(f, s).name = f.name
           /\ Past(f, s).seekable = f.seekable
<1>1. Len(s) \in Nat
  OBVIOUS
<1> QED
  BY <1>1 DEF InFiles, Past

\* A seek of either kind of file.
LEMMA SeekIs ==
    ASSUME NEW p \in Nat
    PROVE  /\ \A f \in InFiles : /\ Seek(f, p) \in InFiles /\ Seek(f, p).pos = p
                                 /\ Seek(f, p).data = f.data /\ Seek(f, p).name = f.name
                                 /\ Seek(f, p).seekable = f.seekable
           /\ \A f \in OutFiles : /\ Seek(f, p) \in OutFiles /\ Seek(f, p).pos = p
                                  /\ Seek(f, p).data = f.data
BY DEF InFiles, OutFiles, Seek

\* The bytes of an input, from the first one on.
LEMMA InputBytes ==
    ASSUME NEW n \in Nat, NEW length \in Nat
    PROVE  /\ [k \in 1 .. length |-> ByteOf(n, k)] \in Seq(Bytes)
           /\ Len([k \in 1 .. length |-> ByteOf(n, k)]) = length
<1>1. PICK d : d = [k \in 1 .. length |-> ByteOf(n, k)]
  OBVIOUS
<1>2. \A k \in 1 .. length : ByteOf(n, k) \in Bytes
  BY DEF ByteOf, Bytes
<1>3. d \in [1 .. length -> Bytes]
  BY <1>1, <1>2
<1>4. d \in Seq(Bytes) /\ Len(d) = length
  BY <1>3
<1> QED
  BY <1>1, <1>4

LEMMA InputIs ==
    ASSUME NEW n \in Nat, NEW length \in Nat, NEW seekable \in BOOLEAN
    PROVE  /\ InputFile(n, length, seekable) \in InFiles
           /\ InputFile(n, length, seekable).name = n
           /\ InputFile(n, length, seekable).pos = 0
           /\ InputFile(n, length, seekable).seekable = seekable
           /\ InputFile(n, length, seekable).data = [k \in 1 .. length |-> ByteOf(n, k)]
<1>1. [k \in 1 .. length |-> ByteOf(n, k)] \in Seq(Bytes)
  BY InputBytes
<1> QED
  BY <1>1 DEF InputFile, InFiles


-----------------------------------------------------------------------------
(* One input and one output.                                               *)

LocalTypes == [size : Int, pos : Nat, written : Nat, block : Int, ini : Int, outi : Nat,
               blockpos : Seq(Nat)]

Single == /\ lengths \in [1 .. 1 -> Nat]
          /\ inf \in [1 .. 1 -> InFiles] /\ inf[1].data = Input
          /\ outf \in [1 .. 1 -> OutFiles]
          /\ local \in LocalTypes

LEMMA InputData ==
    ASSUME Single
    PROVE  /\ lengths[1] \in Nat /\ Input \in Seq(Bytes) /\ Len(Input) = lengths[1]
           /\ inf[1] \in InFiles /\ outf[1] \in OutFiles /\ inf[1].data = Input
           /\ DOMAIN inf = 1 .. 1 /\ DOMAIN outf = 1 .. 1
<1>1. 1 \in 1 .. 1
  OBVIOUS
<1>2. lengths[1] \in Nat /\ inf[1] \in InFiles /\ outf[1] \in OutFiles /\ inf[1].data = Input
  BY <1>1 DEF Single
<1>3. Input \in Seq(Bytes) /\ Len(Input) = lengths[1]
  <2>1. 1 \in Nat
    OBVIOUS
  <2> QED
    BY <1>2, <2>1, InputBytes DEF Input
<1> QED
  BY <1>2, <1>3 DEF Single

\* What copying keeps.
LEMMA CopyKeeps ==
    ASSUME Single, NEW f \in InFiles, f.data = Input, NEW g \in OutFiles, Copy(f, g),
           local' \in LocalTypes, lengths' = lengths
    PROVE  Single' /\ Input' = Input /\ inf'[1] = f /\ outf'[1] = g
<1>1. 1 \in 1 .. 1
  OBVIOUS
<1>2. inf' = [inf EXCEPT ![1] = f] /\ outf' = [outf EXCEPT ![1] = g]
  BY DEF Copy
<1>3. inf'[1] = f /\ inf' \in [1 .. 1 -> InFiles]
  BY <1>1, <1>2 DEF Single
<1>4. outf'[1] = g /\ outf' \in [1 .. 1 -> OutFiles]
  BY <1>1, <1>2 DEF Single
<1>5. Input' = Input
  BY DEF Input
<1> QED
  BY <1>3, <1>4, <1>5 DEF Single

LEMMA BlockSizeIs ==
    ASSUME Usable
    PROVE  BlockSize \in Nat \ {0}
BY DEF Usable, ArgTypes, BlockSize

\* The loops that copy forward: what has been read has been written.
ForwardOK ==
    /\ inf[1].pos <= Len(Input) /\ outf[1].pos = inf[1].pos
    /\ Len(outf[1].data) = inf[1].pos
    /\ \A k \in 1 .. inf[1].pos : outf[1].data[k] = Input[k]
    /\ args.size < 0 => local.size < 0
    /\ args.size >= 0 => local.size = args.size - inf[1].pos /\ local.size >= 0
    /\ pc = "done" => inf[1].pos = Len(Input) \/ local.size = 0

LEMMA ForwardKeeps ==
    ASSUME Usable, Single, ForwardOK, Forward
    PROVE  Single' /\ ForwardOK' /\ pc' \in {"copy", "done"} /\ UNCHANGED <<command, args>>
<1>1. PICK n \in ChunkSizes :
              LET s == IF local.size = 0 THEN <<>> ELSE BytesRead(inf[1], n)
              IN IF s = <<>> THEN Finish
                 ELSE /\ Copy(Past(inf[1], s), Write(outf[1], s))
                      /\ local' = [local EXCEPT !.size = @ - 1]
                      /\ Continue
  BY DEF Forward
<1>2. n \in Nat \ {0} /\ (args.size >= 0 => n = 1)
  <2>1. BlockSize \in Nat \ {0}
    BY BlockSizeIs
  <2>2. Program \in {"cat", "block", "randblock"}
    BY DEF Forward, Running
  <2>3. CASE Program = "cat"
    BY <1>1, <2>3 DEF ChunkSizes
  <2>4. CASE Program = "block"
    <3>1. ChunkSizes = {BlockSize}
      BY <2>4 DEF ChunkSizes
    <3>2. "s" \notin Options[Program]
      BY <2>4 DEF Options
    <3> QED
      BY <1>1, <2>1, <3>1, <3>2 DEF Usable
  <2>5. CASE Program = "randblock"
    <3>1. ChunkSizes = 1 .. BlockSize
      BY <2>5 DEF ChunkSizes
    <3>2. "s" \notin Options[Program]
      BY <2>5 DEF Options
    <3> QED
      BY <1>1, <2>1, <3>1, <3>2 DEF Usable
  <2> QED
    BY <2>2, <2>3, <2>4, <2>5
<1>3. PICK s : s = IF local.size = 0 THEN <<>> ELSE BytesRead(inf[1], n)
  OBVIOUS
<1>4. PICK f \in InFiles, g \in OutFiles : f = inf[1] /\ g = outf[1] /\ f.data = Input
  BY InputData
<1>5. /\ lengths' = lengths /\ command' = command /\ args' = args /\ pc = "copy"
      /\ args.size \in Int /\ f.pos \in Nat /\ local \in LocalTypes /\ Len(Input) \in Nat
  BY <1>4, InputData DEF Forward, Running, Usable, ArgTypes, InFiles, Single
<1>6. CASE s = << >>
  <2>1. Finish
    BY <1>1, <1>3, <1>6
  <2>2. local.size = 0 \/ f.pos = Len(Input)
    <3>1. local.size # 0 => BytesRead(f, n) = << >>
      BY <1>3, <1>4, <1>6
    <3>2. BytesRead(f, n) = << >> <=> n = 0 \/ f.pos >= Len(f.data)
      BY <1>2, ReadIs
    <3> QED
      BY <1>2, <1>4, <1>5, <3>1, <3>2 DEF ForwardOK
  <2>3. Single' /\ Input' = Input
    BY <1>5, <2>1 DEF Finish, Single, Input
  <2> QED
    BY <1>4, <1>5, <2>1, <2>2, <2>3 DEF Finish, ForwardOK
<1>7. CASE s # << >>
  <2>1. s = BytesRead(f, n) /\ local.size # 0
    BY <1>3, <1>4, <1>7
  <2>2. /\ Copy(Past(f, s), Write(g, s)) /\ local' = [local EXCEPT !.size = @ - 1] /\ pc' = pc
    BY <1>1, <1>3, <1>4, <1>7 DEF Continue
  <2>3. /\ s \in Seq(Bytes) /\ Len(s) = Least(n, Len(Input) - f.pos) /\ f.pos < Len(Input)
        /\ \A i \in 1 .. Len(s) : s[i] = Input[f.pos + i]
    BY SMTT(30), <1>2, <1>4, <1>5, <1>7, <2>1, ReadIs
  <2>4. /\ Past(f, s) \in InFiles /\ Past(f, s).data = Input /\ Past(f, s).pos = f.pos + Len(s)
    BY <1>4, <2>3, PastIs
  <2>5. Write(g, s) \in OutFiles
    BY <2>3, WriteIs
  <2>6. local' \in LocalTypes /\ local'.size = local.size - 1
    BY SMTT(30), <1>5, <2>2 DEF LocalTypes
  <2>7. Single' /\ Input' = Input /\ inf'[1] = Past(f, s) /\ outf'[1] = Write(g, s)
    BY <1>5, <2>2, <2>4, <2>5, <2>6, CopyKeeps
  <2>8. Len(s) \in Nat \ {0} /\ Len(s) <= Len(Input) - f.pos /\ Len(s) <= n
    BY <1>2, <1>5, <1>7, <2>3 DEF Least
  <2>9. g.pos = f.pos /\ Len(g.data) = f.pos /\ \A k \in 1 .. f.pos : g.data[k] = Input[k]
    BY <1>4 DEF ForwardOK
  <2>10. /\ Write(g, s).pos = f.pos + Len(s) /\ Len(Write(g, s).data) = f.pos + Len(s)
         /\ \A k \in 1 .. Len(Write(g, s).data) :
               Write(g, s).data[k] = IF k > f.pos /\ k <= f.pos + Len(s) THEN s[k - f.pos]
                                     ELSE IF k <= f.pos THEN g.data[k] ELSE Hole
    <3>1. /\ Write(g, s).pos = g.pos + Len(s)
          /\ Len(Write(g, s).data) = IF s = << >> \/ Len(g.data) >= g.pos + Len(s)
                                     THEN Len(g.data) ELSE g.pos + Len(s)
          /\ \A k \in 1 .. Len(Write(g, s).data) :
                Write(g, s).data[k] = IF k > g.pos /\ k <= g.pos + Len(s) THEN s[k - g.pos]
                                      ELSE IF k <= Len(g.data) THEN g.data[k] ELSE Hole
      BY <2>3, WriteIs
    <3>2. ~(f.pos >= f.pos + Len(s))
      BY <1>5, <2>8
    <3> QED
      BY <1>7, <2>9, <3>1, <3>2
  <2>11. ASSUME NEW k \in 1 .. f.pos + Len(s) PROVE Write(g, s).data[k] = Input[k]
    <3>1. CASE k > f.pos
      <4>1. k - f.pos \in 1 .. Len(s) /\ f.pos + (k - f.pos) = k
        BY <1>5, <2>8, <3>1
      <4> QED
        BY <2>3, <2>10, <3>1, <4>1
    <3>2. CASE ~(k > f.pos)
      <4>1. k \in 1 .. f.pos
        BY <1>5, <2>8, <3>2
      <4> QED
        BY <2>9, <2>10, <3>2, <4>1
    <3> QED
      BY <3>1, <3>2
  <2>12. /\ args.size < 0 => local'.size < 0
         /\ args.size >= 0 => local'.size = args.size - (f.pos + Len(s)) /\ local'.size >= 0
    <3>1. PICK z \in Int, y \in Int, m \in Nat \ {0}, p \in Nat :
                   z = args.size /\ y = local.size /\ m = Len(s) /\ p = f.pos
      BY <1>5, <2>8 DEF LocalTypes
    <3>2. z >= 0 => m = 1
      BY <1>2, <2>8, <3>1
    <3>3. (z < 0 => y < 0) /\ (z >= 0 => y = z - p /\ y >= 0) /\ y # 0
      BY <1>4, <2>1, <3>1 DEF ForwardOK
    <3>4. (z < 0 => y - 1 < 0) /\ (z >= 0 => y - 1 = z - (p + m) /\ y - 1 >= 0)
      BY <3>2, <3>3
    <3> QED
      BY <2>6, <3>1, <3>4
  <2>13. f.pos + Len(s) <= Len(Input)
    BY <1>5, <2>8
  <2> QED
    BY <1>5, <2>2, <2>4, <2>7, <2>10, <2>11, <2>12, <2>13 DEF ForwardOK
<1> QED
  BY <1>6, <1>7


\* The loop that copies backward: how many places it goes back over, and the byte for
\* the k-th of n, of an input of length l.
GoesBack == IF args.size < 0 THEN Len(Input) ELSE args.size
BackByte(l, n, k) == IF n - k < l THEN ByteOf(1, n - k + 1) ELSE EofByte
BackwardOK ==
    /\ local.size \in Nat
    /\ outf[1].pos = Len(outf[1].data)
    /\ local.size + Len(outf[1].data) = GoesBack
    /\ \A k \in 1 .. Len(outf[1].data) : outf[1].data[k] = BackByte(Len(Input), GoesBack, k)
    /\ pc = "done" => local.size = 0

LEMMA BackwardKeeps ==
    ASSUME Usable, Single, BackwardOK, Backward
    PROVE  Single' /\ BackwardOK' /\ pc' \in {"copy", "done"} /\ UNCHANGED <<command, args>>
<1>3. PICK z \in Nat : z = local.size
  BY DEF BackwardOK
<1>4. PICK f \in InFiles, g \in OutFiles, l \in Nat :
              f = inf[1] /\ g = outf[1] /\ f.data = Input /\ l = Len(Input)
  BY InputData
<1>5. /\ lengths' = lengths /\ command' = command /\ args' = args /\ pc = "copy"
      /\ args.size \in Int /\ local \in LocalTypes
  BY DEF Backward, Running, Usable, ArgTypes, Single
<1>6. CASE z = 0
  <2>1. Finish
    BY <1>3, <1>6 DEF Backward
  <2>2. Single' /\ Input' = Input
    BY <1>5, <2>1 DEF Finish, Single, Input
  <2> QED
    BY <1>3, <1>5, <1>6, <2>1, <2>2 DEF Finish, BackwardOK, GoesBack
<1>7. CASE z # 0
  <2>1. z - 1 \in Nat /\ Place(z) = z - 1
    BY <1>7 DEF Place
  <2>2. PICK at, s, t : /\ at = Seek(f, z - 1) /\ s = BytesRead(at, 1)
                        /\ t = IF s = << >> THEN <<EofByte>> ELSE s
    OBVIOUS
  <2>3. /\ Copy(Past(at, s), Write(g, t)) /\ local' = [local EXCEPT !.size = @ - 1] /\ pc' = pc
    BY <1>3, <1>4, <1>7, <2>1, <2>2 DEF Backward, Continue
  <2>4. at \in InFiles /\ at.pos = z - 1 /\ at.data = Input
    BY <1>4, <2>1, <2>2, SeekIs
  <2>5. /\ s \in Seq(Bytes) /\ Len(s) = (IF z - 1 >= l THEN 0 ELSE Least(1, l - (z - 1)))
        /\ (s = << >> <=> z - 1 >= l)
        /\ \A i \in 1 .. Len(s) : s[i] = Input[z - 1 + i]
    <3>1. PICK n \in Nat \ {0} : n = 1
      OBVIOUS
    <3>2. s = BytesRead(at, n)
      BY <2>2, <3>1
    <3>3. /\ s \in Seq(Bytes)
          /\ Len(s) = (IF at.pos >= Len(at.data) THEN 0 ELSE Least(n, Len(at.data) - at.pos))
          /\ (s = << >> <=> n = 0 \/ at.pos >= Len(at.data))
          /\ \A i \in 1 .. Len(s) : s[i] = at.data[at.pos + i]
      BY <2>4, <3>2, ReadIs
    <3> QED
      BY <1>4, <2>4, <3>1, <3>3
  <2>6. /\ t \in Seq(Bytes) /\ Len(t) = 1
        /\ t[1] = IF z - 1 < l THEN ByteOf(1, z) ELSE EofByte
    <3>1. CASE z - 1 >= l
      <4>1. EofByte \in Bytes
        BY DEF EofByte, Bytes
      <4>2. t = <<EofByte>> /\ ~(z - 1 < l)
        BY <2>2, <2>5, <3>1
      <4> QED
        BY <4>1, <4>2
    <3>2. CASE ~(z - 1 >= l)
      <4>1. t = s /\ Len(s) = 1
        BY <2>2, <2>5, <3>2 DEF Least
      <4>2. s[1] = Input[z]
        <5>1. 1 \in 1 .. Len(s) /\ z - 1 + 1 = z
          BY <4>1
        <5> QED
          BY <2>5, <5>1
      <4>3. Input[z] = ByteOf(1, z) /\ z - 1 < l
        <5>1. z \in 1 .. lengths[1] /\ z - 1 < l
          BY <1>4, <1>7, <3>2, InputData
        <5> QED
          BY <5>1 DEF Input
      <4> QED
        BY <2>5, <4>1, <4>2, <4>3
    <3> QED
      BY <3>1, <3>2
  <2>7. /\ Past(at, s) \in InFiles /\ Past(at, s).data = Input
    BY <2>4, <2>5, PastIs
  <2>8. /\ Write(g, t) \in OutFiles /\ Write(g, t).pos = g.pos + Len(t)
        /\ Len(Write(g, t).data) = IF t = << >> \/ Len(g.data) >= g.pos + Len(t)
                                   THEN Len(g.data) ELSE g.pos + Len(t)
        /\ \A k \in 1 .. Len(Write(g, t).data) :
              Write(g, t).data[k] = IF k > g.pos /\ k <= g.pos + Len(t) THEN t[k - g.pos]
                                    ELSE IF k <= Len(g.data) THEN g.data[k] ELSE Hole
    BY <2>6, WriteIs
  <2>9. local' \in LocalTypes /\ local'.size = z - 1
    BY SMTT(30), <1>3, <1>5, <2>3 DEF LocalTypes
  <2>10. Single' /\ Input' = Input /\ inf'[1] = Past(at, s) /\ outf'[1] = Write(g, t)
    BY <1>5, <2>3, <2>7, <2>8, <2>9, CopyKeeps
  <2>11. PICK n : n = GoesBack
    OBVIOUS
  <2>12. /\ outf'[1].pos = Len(outf'[1].data)
         /\ z - 1 + Len(outf'[1].data) = n
         /\ \A k \in 1 .. Len(outf'[1].data) : outf'[1].data[k] = BackByte(l, n, k)
    <3>1. PICK m \in Nat : /\ m = Len(g.data) /\ m = g.pos /\ z + m = n
                           /\ \A k \in 1 .. m : g.data[k] = BackByte(l, n, k)
      <4>1. Len(g.data) \in Nat
        BY DEF OutFiles
      <4> QED
        BY <1>3, <1>4, <2>11, <4>1 DEF BackwardOK
    <3>2. Len(t) = 1 /\ t # << >>
      <4>1. Len(t) = 1
        BY <2>6, Zenon
      <4>2. Len(<< >>) = 0
        OBVIOUS
      <4> QED
        BY <4>1, <4>2
    <3>3. /\ Len(Write(g, t).data) = m + 1 /\ Write(g, t).pos = m + 1
      BY <2>8, <3>1, <3>2
    <3>4. \A k \in 1 .. m + 1 :
             Write(g, t).data[k] = IF k > m /\ k <= m + 1 THEN t[k - m]
                                   ELSE IF k <= m THEN g.data[k] ELSE Hole
      BY <2>8, <3>1, <3>3, <3>2
    <3>5. ASSUME NEW k \in 1 .. m + 1 PROVE Write(g, t).data[k] = BackByte(l, n, k)
      <4>1. CASE k = m + 1
        <5>1. Write(g, t).data[k] = t[1] /\ n - k = z - 1 /\ n - k + 1 = z
          BY <3>1, <3>4, <4>1
        <5> QED
          BY <2>6, <5>1 DEF BackByte
      <4>2. CASE k # m + 1
        <5>1. k \in 1 .. m
          BY <4>2
        <5>2. Write(g, t).data[k] = g.data[k]
          BY <3>4, <5>1
        <5> QED
          BY <3>1, <5>1, <5>2
      <4> QED
        BY <4>1, <4>2
    <3> QED
      BY SMTT(30), <2>10, <3>1, <3>3, <3>5
  <2> QED
    BY <1>4, <1>5, <2>1, <2>3, <2>9, <2>10, <2>12, <2>11 DEF BackwardOK, GoesBack
<1> QED
  BY <1>6, <1>7


\* The bytes of a block.
LEMMA BlockOf ==
    ASSUME NEW s \in Nat \ {0}, NEW b \in Nat, NEW k \in Nat \ {0}
    PROVE  (k - 1) \div s = b <=> b * s < k /\ k <= b * s + s
<1>1. PICK v \in Nat : v = k - 1
  <2>1. k - 1 \in Nat
    OBVIOUS
  <2> QED
    BY <2>1
<1>2. PICK q \in Nat : q = v \div s /\ q * s <= v /\ v < (q + 1) * s
  BY Remainders
<1>3. (q + 1) * s = q * s + s /\ q * s \in Nat
  OBVIOUS
<1>4. PICK w \in Nat : w = b * s
  OBVIOUS
<1>5. b = q => w <= v /\ v < w + s
  BY <1>2, <1>3, <1>4
<1>6. w <= v /\ v < w + s => v \div s = b
  <2>1. ASSUME w <= v, v < w + s PROVE v \div s = b
    <3>1. v \in Int /\ b \in Int /\ b * s <= v /\ v < b * s + s
      BY <1>4, <2>1
    <3> QED
      BY <3>1, Quotient
  <2> QED
    BY <2>1
<1> QED
  BY <1>1, <1>2, <1>4, <1>5, <1>6

\* The blocks yet to be copied.
Left == {local.blockpos[j] : j \in 1 .. Len(local.blockpos)}

LEMMA RemovedIs ==
    ASSUME NEW s \in Seq(Nat), NEW i \in 1 .. Len(s)
    PROVE  /\ Removed(s, i) \in Seq(Nat)
           /\ \A j \in 1 .. Len(Removed(s, i)) : Removed(s, i)[j] \in {s[n] : n \in 1 .. Len(s)}
           /\ \A b \in {s[n] : n \in 1 .. Len(s)} :
                 b = s[i] \/ b \in {Removed(s, i)[j] : j \in 1 .. Len(Removed(s, i))}
<1>1. PICK l \in Nat : l = Len(s) /\ i <= l /\ 1 <= l
  OBVIOUS
<1>2. PICK t : t = [j \in 1 .. l - 1 |-> IF j = i THEN s[l] ELSE s[j]]
  OBVIOUS
<1>3. t \in [1 .. l - 1 -> Nat]
  <2>1. \A j \in 1 .. l : s[j] \in Nat
    BY <1>1
  <2>2. l \in 1 .. l /\ \A j \in 1 .. l - 1 : j \in 1 .. l
    BY <1>1
  <2> QED
    BY <1>2, <2>1, <2>2
<1>4. t \in Seq(Nat) /\ Len(t) = l - 1
  BY <1>1, <1>3
<1>5. Removed(s, i) = t
  BY <1>1, <1>2 DEF Removed
<1>6. \A j \in 1 .. Len(t) : t[j] \in {s[n] : n \in 1 .. Len(s)}
  BY <1>1, <1>2, <1>4
<1>7. ASSUME NEW b \in {s[n] : n \in 1 .. Len(s)}, b # s[i]
      PROVE  b \in {t[j] : j \in 1 .. Len(t)}
  <2>1. PICK n \in 1 .. l : b = s[n] /\ n # i
    BY <1>1, <1>7
  <2>2. CASE n = l
    <3>1. i \in 1 .. l - 1 /\ t[i] = b
      BY <1>1, <1>2, <2>1, <2>2
    <3> QED
      BY <1>4, <3>1
  <2>3. CASE n # l
    <3>1. n \in 1 .. l - 1 /\ t[n] = b
      BY <1>1, <1>2, <2>1, <2>3
    <3> QED
      BY <1>4, <3>1
  <2> QED
    BY <2>2, <2>3
<1> QED
  BY <1>4, <1>5, <1>6, <1>7

\* The blocks that have been copied are in their places.
Placed(data, left, blocks, size) ==
    /\ Len(data) <= blocks * size
    /\ \A k \in 1 .. Len(data) : (k - 1) \div size \notin left => data[k] = Input[k]
    /\ \A b \in 0 .. blocks - 1 : b \notin left => (b + 1) * size <= Len(data)

ReorderOK ==
    \E blocks \in Nat :
       /\ local.size = blocks * BlockSize
       /\ Left \in SUBSET (0 .. blocks - 1)
       /\ local.size <= Len(Input) => Placed(outf[1].data, Left, blocks, BlockSize)
       /\ pc = "done" /\ local.size <= Len(Input) => local.blockpos = << >>

\* One block more.
LEMMA OneMorePlaced ==
    ASSUME Single, NEW g \in OutFiles, NEW left, NEW later, NEW blocks \in Nat, NEW B \in Nat \ {0},
           Placed(g.data, left, blocks, B), NEW b \in 0 .. blocks - 1,
           \A x \in left : x = b \/ x \in later,
           NEW s \in Seq(Bytes), Len(s) = B, \A i \in 1 .. B : s[i] = Input[b * B + i],
           g.pos = b * B
    PROVE  Placed(Write(g, s).data, later, blocks, B)
<1>1. PICK p \in Nat, l \in Nat : p = b * B /\ l = Len(g.data)
  <2>1. Len(g.data) \in Nat /\ b * B \in Nat
    BY DEF OutFiles
  <2> QED
    BY <2>1
<1>2. s # << >>
  OBVIOUS
<1>30. PICK d, m : d = Write(g, s).data /\ m = Len(d)
  OBVIOUS
<1>3. /\ d = Write(g, s).data /\ m = Len(d) /\ m \in Nat
      /\ m = (IF l >= p + B THEN l ELSE p + B)
      /\ \A k \in 1 .. m : d[k] = IF k > p /\ k <= p + B THEN s[k - p]
                                  ELSE IF k <= l THEN g.data[k] ELSE Hole
  <2>1. /\ Len(Write(g, s).data) = IF s = << >> \/ Len(g.data) >= g.pos + Len(s)
                                   THEN Len(g.data) ELSE g.pos + Len(s)
        /\ \A k \in 1 .. Len(Write(g, s).data) :
              Write(g, s).data[k] = IF k > g.pos /\ k <= g.pos + Len(s) THEN s[k - g.pos]
                                    ELSE IF k <= Len(g.data) THEN g.data[k] ELSE Hole
    BY WriteIs
  <2>2. g.pos = p /\ Len(s) = B /\ Len(g.data) = l
    BY <1>1
  <2>3. /\ m = (IF l >= p + B THEN l ELSE p + B)
        /\ \A k \in 1 .. m : d[k] = IF k > p /\ k <= p + B THEN s[k - p]
                                    ELSE IF k <= l THEN g.data[k] ELSE Hole
    BY <1>2, <1>30, <2>1, <2>2
  <2> QED
    BY <1>30, <2>3
<1>4. (b + 1) * B = p + B /\ (b + 1) * B <= blocks * B
  <2>1. (b + 1) * B = b * B + B
    OBVIOUS
  <2>2. PICK v \in Nat : v = p
    OBVIOUS
  <2>3. v \div B = b
    BY <1>1, <2>2, Blocks
  <2>4. v < blocks * B <=> v \div B < blocks
    BY Blocks
  <2>5. v < blocks * B => (v \div B + 1) * B <= blocks * B
    BY Blocks
  <2> QED
    BY <1>1, <2>1, <2>3, <2>4, <2>5
<1>5. m <= blocks * B
  <2>1. l <= blocks * B /\ blocks * B \in Nat
    BY <1>1 DEF Placed
  <2> QED
    BY <1>3, <1>4, <2>1
<1>6. ASSUME NEW k \in 1 .. m, (k - 1) \div B \notin later PROVE d[k] = Input[k]
  <2>1. PICK c \in Nat : c = (k - 1) \div B /\ c * B < k /\ k <= c * B + B
    <3>1. PICK v \in Nat : v = k - 1
      <4>1. k - 1 \in Nat
        OBVIOUS
      <4> QED
        BY <4>1
    <3>2. PICK q \in Nat : q = v \div B
      BY Remainders
    <3>3. k \in Nat \ {0}
      OBVIOUS
    <3> QED
      BY <3>1, <3>2, <3>3, BlockOf
  <2>2. CASE c = b
    <3>0. p < k /\ k <= p + B
      BY <1>1, <2>1, <2>2
    <3>1. k - p \in 1 .. B /\ d[k] = s[k - p] /\ p + (k - p) = k
      BY <1>3, <3>0
    <3> QED
      BY <1>1, <3>1
  <2>3. CASE c # b
    <3>1. ~(k > p /\ k <= p + B)
      <4>1. k \in Nat \ {0} /\ b \in Nat
        OBVIOUS
      <4>2. (k - 1) \div B = b <=> b * B < k /\ k <= b * B + B
        BY <4>1, BlockOf
      <4> QED
        BY <1>1, <2>1, <2>3, <4>2
    <3>2. c \notin left
      BY <1>6, <2>1, <2>3
    <3>3. c \in 0 .. blocks - 1
      <4>1. c * B < blocks * B
        <5>1. c * B \in Nat /\ blocks * B \in Nat
          OBVIOUS
        <5> QED
          BY <1>3, <1>5, <2>1, <5>1
      <4>2. PICK v \in Nat : v = c * B
        OBVIOUS
      <4>3. v \div B = c /\ (v < blocks * B <=> v \div B < blocks)
        BY <4>2, Blocks
      <4> QED
        BY <4>1, <4>2, <4>3
    <3>4. (c + 1) * B <= l
      BY <1>1, <3>2, <3>3 DEF Placed
    <3>5. k \in 1 .. l
      <4>1. (c + 1) * B = c * B + B /\ c * B \in Nat
        OBVIOUS
      <4> QED
        BY <2>1, <3>4, <4>1
    <3>6. g.data[k] = Input[k]
      BY <1>1, <2>1, <3>2, <3>5 DEF Placed
    <3> QED
      BY <1>3, <3>1, <3>5, <3>6
  <2> QED
    BY <2>2, <2>3
<1>7. ASSUME NEW c \in 0 .. blocks - 1, c \notin later PROVE (c + 1) * B <= m
  <2>1. CASE c = b
    BY <1>3, <1>4, <2>1
  <2>2. CASE c # b
    <3>1. c \notin left
      BY <1>7, <2>2
    <3>2. (c + 1) * B <= l /\ (c + 1) * B \in Nat
      BY <1>1, <3>1 DEF Placed
    <3> QED
      BY <1>3, <3>2
  <2> QED
    BY <2>1, <2>2
<1> QED
  BY <1>3, <1>5, <1>6, <1>7 DEF Placed


LEMMA ReorderKeeps ==
    ASSUME Usable, Single, ReorderOK, Reorder
    PROVE  Single' /\ ReorderOK' /\ pc' \in {"copy", "done"} /\ UNCHANGED <<command, args>>
<1>1. PICK blocks \in Nat :
         /\ local.size = blocks * BlockSize
         /\ Left \in SUBSET (0 .. blocks - 1)
         /\ local.size <= Len(Input) => Placed(outf[1].data, Left, blocks, BlockSize)
         /\ pc = "done" /\ local.size <= Len(Input) => local.blockpos = << >>
  BY DEF ReorderOK
<1>2. PICK B \in Nat \ {0}, z \in Nat, bs \in Seq(Nat) :
              B = BlockSize /\ z = local.size /\ z = blocks * B /\ bs = local.blockpos
  <2>1. BlockSize \in Nat \ {0}
    BY BlockSizeIs
  <2>2. blocks * BlockSize \in Nat
    BY <2>1
  <2> QED
    BY <1>1, <2>1, <2>2 DEF Single, LocalTypes
<1>4. PICK f \in InFiles, g \in OutFiles, l \in Nat :
              f = inf[1] /\ g = outf[1] /\ f.data = Input /\ l = Len(Input)
  BY InputData
<1>5. /\ lengths' = lengths /\ command' = command /\ args' = args /\ pc = "copy"
      /\ local \in LocalTypes
  BY DEF Reorder, Running, Single
<1>11. BlockSize' = BlockSize
  BY <1>5 DEF BlockSize, Program
<1>6. ASSUME Finish, z <= l => bs = << >>
      PROVE  Single' /\ ReorderOK' /\ pc' \in {"copy", "done"} /\ UNCHANGED <<command, args>>
  <2>1. UNCHANGED <<inf, outf, local, turns>> /\ pc' = "done"
    BY <1>6 DEF Finish
  <2>2. Single' /\ Input' = Input
    BY <1>5, <2>1 DEF Single, Input
  <2>3. Left' = Left
    BY <2>1 DEF Left
  <2>5. BlockSize' = B /\ local'.size = z /\ local'.blockpos = bs /\ Len(Input') = l
    BY <1>2, <1>4, <1>11, <2>1, <2>2
  <2>6. z <= l => Placed(outf[1].data, Left, blocks, BlockSize)'
    BY <1>1, <1>2, <1>4, <1>11, <2>1, <2>2, <2>3 DEF Placed
  <2>7. ReorderOK'
    BY <1>1, <1>2, <1>6, <2>1, <2>3, <2>5, <2>6 DEF ReorderOK
  <2> QED
    BY <1>5, <2>1, <2>2, <2>7
<1>7. CASE bs = << >> /\ Finish
  BY <1>6, <1>7
<1>8. ASSUME NEW i \in DOMAIN bs, NEW b, b = bs[i], NEW pos, pos = b * B,
             NEW at, at = Seek(f, pos), NEW s, s = BytesRead(at, B)
      PROVE  /\ b \in 0 .. blocks - 1 /\ b \in Nat /\ pos \in Nat /\ i \in 1 .. Len(bs)
             /\ pos + B <= z
             /\ at \in InFiles /\ at.pos = pos /\ at.data = Input
             /\ s \in Seq(Bytes)
             /\ z <= l => /\ Len(s) = B /\ s # << >>
                          /\ \A n \in 1 .. B : s[n] = Input[b * B + n]
  <2>1. i \in 1 .. Len(bs) /\ b \in Left
    BY <1>2, <1>8 DEF Left
  <2>2. b \in 0 .. blocks - 1 /\ b \in Nat
    BY <1>1, <2>1
  <2>3. pos \in Nat
    BY <1>8, <2>2
  <2>4. pos + B <= z
    <3>1. (b + 1) * B = pos + B
      BY <1>8, <2>2
    <3>2. pos \div B = b /\ (pos < blocks * B <=> pos \div B < blocks)
          /\ (pos < blocks * B => (pos \div B + 1) * B <= blocks * B)
      BY <1>8, <2>2, <2>3, Blocks
    <3> QED
      BY <1>2, <2>2, <3>1, <3>2
  <2>5. at \in InFiles /\ at.pos = pos /\ at.data = Input
    BY <1>4, <1>8, <2>3, SeekIs
  <2>6. /\ s \in Seq(Bytes)
        /\ Len(s) = (IF pos >= l THEN 0 ELSE Least(B, l - pos))
        /\ \A n \in 1 .. Len(s) : s[n] = Input[pos + n]
    <3>1. /\ s \in Seq(Bytes)
          /\ Len(s) = (IF at.pos >= Len(at.data) THEN 0 ELSE Least(B, Len(at.data) - at.pos))
          /\ \A n \in 1 .. Len(s) : s[n] = at.data[at.pos + n]
      <4>1. s = BytesRead(at, B) /\ at \in InFiles /\ B \in Nat
        BY <1>8, <2>5
      <4>2. /\ BytesRead(at, B) \in Seq(Bytes)
            /\ Len(BytesRead(at, B)) = IF at.pos >= Len(at.data) THEN 0
                                       ELSE Least(B, Len(at.data) - at.pos)
            /\ \A n \in 1 .. Len(BytesRead(at, B)) : BytesRead(at, B)[n] = at.data[at.pos + n]
        BY <4>1, ReadIs
      <4> QED
        BY <4>1, <4>2
    <3> QED
      BY <1>4, <2>5, <3>1
  <2>7. z <= l => Len(s) = B /\ s # << >>
    <3>1. z <= l => ~(pos >= l) /\ Least(B, l - pos) = B
      BY <1>2, <2>3, <2>4 DEF Least
    <3>2. Len(<< >>) = 0
      OBVIOUS
    <3> QED
      BY <2>6, <3>1, <3>2
  <2> QED
    BY <1>8, <2>1, <2>2, <2>3, <2>4, <2>5, <2>6, <2>7
<1>9. ASSUME NEW i \in DOMAIN bs, NEW b, b = bs[i], NEW pos, pos = b * B,
             NEW at, NEW s,
             b \in 0 .. blocks - 1, b \in Nat, pos \in Nat, i \in 1 .. Len(bs),
             at \in InFiles, at.pos = pos, at.data = Input, s \in Seq(Bytes),
             z <= l => Len(s) = B /\ \A n \in 1 .. B : s[n] = Input[b * B + n],
             Copy(Past(at, s), Write(Seek(g, pos), s)),
             local' = [local EXCEPT !.blockpos = Removed(bs, i)], pc' = pc
      PROVE  Single' /\ ReorderOK' /\ pc' \in {"copy", "done"} /\ UNCHANGED <<command, args>>
  <2>1. /\ b \in 0 .. blocks - 1 /\ b \in Nat /\ pos \in Nat /\ i \in 1 .. Len(bs)
        /\ at \in InFiles /\ at.pos = pos /\ at.data = Input
        /\ s \in Seq(Bytes)
        /\ z <= l => Len(s) = B /\ \A n \in 1 .. B : s[n] = Input[b * B + n]
    BY <1>9
  <2>2. Past(at, s) \in InFiles /\ Past(at, s).data = Input
    BY <2>1, PastIs
  <2>3. PICK o \in OutFiles : o = Seek(g, pos) /\ o.pos = pos /\ o.data = g.data
    BY <2>1, SeekIs
  <2>4. Write(o, s) \in OutFiles
    BY <2>1, WriteIs
  <2>5. PICK rs \in Seq(Nat) : rs = Removed(bs, i)
    BY <2>1, RemovedIs
  <2>6. local' \in LocalTypes /\ local'.size = z /\ local'.blockpos = rs
    BY <1>2, <1>5, <1>9, <2>5 DEF LocalTypes
  <2>7. Single' /\ Input' = Input /\ outf'[1] = Write(o, s)
    BY <1>5, <1>9, <2>2, <2>3, <2>4, <2>6, CopyKeeps
  <2>8. /\ \A x \in Left' : x \in Left
        /\ \A x \in Left : x = b \/ x \in Left'
    <3>1. /\ \A j \in 1 .. Len(rs) : rs[j] \in {bs[n] : n \in 1 .. Len(bs)}
          /\ \A x \in {bs[n] : n \in 1 .. Len(bs)} :
                x = bs[i] \/ x \in {rs[j] : j \in 1 .. Len(rs)}
      <4>1. i \in 1 .. Len(bs) /\ bs \in Seq(Nat)
        BY <2>1
      <4>2. /\ \A j \in 1 .. Len(Removed(bs, i)) : Removed(bs, i)[j] \in {bs[n] : n \in 1 .. Len(bs)}
            /\ \A x \in {bs[n] : n \in 1 .. Len(bs)} :
                 x = bs[i] \/ x \in {Removed(bs, i)[j] : j \in 1 .. Len(Removed(bs, i))}
        BY <4>1, RemovedIs, Zenon
      <4> QED
        BY <2>5, <4>2, Zenon
    <3>2. Left = {bs[n] : n \in 1 .. Len(bs)} /\ Left' = {rs[j] : j \in 1 .. Len(rs)}
      BY <1>2, <2>6 DEF Left
    <3> QED
      BY ZenonT(30), <1>9, <3>1, <3>2
  <2>9. PICK later : later = Left'
    OBVIOUS
  <2>10. z <= l => Placed(Write(o, s).data, later, blocks, B)
    <3>1. ASSUME z <= l PROVE Placed(Write(o, s).data, later, blocks, B)
      <4>1. Placed(o.data, Left, blocks, B)
        BY <1>1, <1>2, <1>4, <2>3, <3>1
      <4>2. Len(s) = B /\ \A n \in 1 .. B : s[n] = Input[b * B + n]
        BY <2>1, <3>1
      <4>3. \A x \in Left : x = b \/ x \in later
        BY <2>8, <2>9
      <4>4. o.pos = b * B
        BY <1>9, <2>3
      <4> QED
        BY ZenonT(30), <2>1, <4>1, <4>2, <4>3, <4>4, OneMorePlaced
    <3> QED
      BY <3>1
  <2>11. z <= l => Placed(outf[1].data, Left, blocks, BlockSize)'
    BY <1>2, <1>11, <2>7, <2>9, <2>10 DEF Placed
  <2>12. local'.size = blocks * BlockSize' /\ Len(Input') = l /\ pc' = "copy"
    BY <1>2, <1>4, <1>5, <1>9, <1>11, <2>6, <2>7
  <2>13. Left' \in SUBSET (0 .. blocks - 1)
    BY <1>1, <2>8
  <2>14. ReorderOK'
    BY <2>6, <2>11, <2>12, <2>13 DEF ReorderOK
  <2> QED
    BY <1>5, <2>7, <2>12, <2>14
<1>10. ASSUME NEW i \in DOMAIN local.blockpos,
              LET pos == local.blockpos[i] * BlockSize
                  f1 == Seek(inf[1], pos)
                  s == BytesRead(f1, BlockSize)
              IN IF s = <<>> THEN Finish
                 ELSE /\ Copy(Past(f1, s), Write(Seek(outf[1], pos), s))
                      /\ local' = [local EXCEPT !.blockpos = Removed(@, i)]
                      /\ Continue
       PROVE  Single' /\ ReorderOK' /\ pc' \in {"copy", "done"} /\ UNCHANGED <<command, args>>
  <2>1. PICK b, pos, at, s : /\ b = bs[i] /\ pos = b * B /\ at = Seek(f, pos)
                             /\ s = BytesRead(at, B)
    OBVIOUS
  <2>2. i \in DOMAIN bs
    BY <1>2, <1>10
  <2>3. IF s = <<>> THEN Finish
        ELSE /\ Copy(Past(at, s), Write(Seek(g, pos), s))
             /\ local' = [local EXCEPT !.blockpos = Removed(bs, i)]
             /\ pc' = pc
    BY <1>2, <1>4, <1>10, <2>1 DEF Continue
  <2>4. CASE s = << >>
    <3>1. ~(z <= l)
      BY <1>8, <2>1, <2>2, <2>4
    <3> QED
      BY <1>6, <2>3, <2>4, <3>1
  <2>5. CASE s # << >>
    <3>1. /\ b \in 0 .. blocks - 1 /\ b \in Nat /\ pos \in Nat /\ i \in 1 .. Len(bs)
          /\ at \in InFiles /\ at.pos = pos /\ at.data = Input
          /\ s \in Seq(Bytes)
          /\ z <= l => /\ Len(s) = B /\ s # << >>
                       /\ \A n \in 1 .. B : s[n] = Input[b * B + n]
      BY SMTT(30), <1>8, <2>1, <2>2
    <3> QED
      BY <1>9, <2>1, <2>2, <2>3, <2>5, <3>1
  <2> QED
    BY <2>4, <2>5
<1> QED
  BY <1>2, <1>7, <1>10 DEF Reorder


-----------------------------------------------------------------------------
(* Strides.                                                                *)

\* The places before column c, and those of the next b columns in the rows before r.
Visited(p, c, r, b, T) == p % T < c \/ (p % T < c + b /\ p \div T < r)

\* The order of the places: blocks of columns first, then rows.
Less(p, q, T, B) ==
    \/ (p % T) \div B < (q % T) \div B
    \/ /\ (p % T) \div B = (q % T) \div B
       /\ \/ p \div T < q \div T
          \/ p \div T = q \div T /\ p % T < q % T

\* A block of b columns from column c on, in row r.
AtBlock(c, r, b, T, B, n) ==
    /\ b \in Nat /\ c + b <= T /\ b <= B
    /\ b = 0 => c = T
    /\ b # 0 => \E j \in Nat : c = j * B
    /\ b = B \/ c + b = T
    /\ r # 0 => r * T + c < n

LEMMA InRow ==
    ASSUME NEW T \in Nat \ {0}, NEW r \in Nat, NEW k \in Nat, k < T, NEW x, x = r * T + k
    PROVE  x \in Nat /\ x % T = k /\ x \div T = r
<1>1. PICK w \in Nat : w = r * T
  OBVIOUS
<1>2. x \in Int /\ r \in Int /\ r * T <= x /\ x < r * T + T /\ x - r * T = k /\ x \in Nat
  BY <1>1
<1>3. x \div T = r /\ x % T = x - r * T
  BY <1>2, Quotient
<1> QED
  BY <1>2, <1>3

\* Places of the block are after those visited, each after the one before it.
LEMMA BlockAfter ==
    ASSUME NEW T \in Nat \ {0}, NEW B \in Nat \ {0}, NEW c \in Nat, NEW r \in Nat, NEW b,
           NEW n, AtBlock(c, r, b, T, B, n), b # 0, NEW i \in 0 .. b - 1, NEW x, x = r * T + (c + i)
    PROVE  /\ x \in Nat /\ Visited(x, c, r + 1, b, T)
           /\ \A p \in Nat : Visited(p, c, r, b, T) => Less(p, x, T, B)
           /\ \A k \in 0 .. i - 1 : Less(r * T + (c + k), x, T, B)
<1>1. PICK j \in Nat : c = j * B /\ b \in Nat /\ c + b <= T /\ b <= B
  BY DEF AtBlock
<1>2. \A k \in 0 .. b - 1 : /\ c + k \in Nat /\ c + k < T /\ (c + k) \div B = j
  <2>1. ASSUME NEW k \in 0 .. b - 1 PROVE c + k \in Nat /\ c + k < T /\ (c + k) \div B = j
    <3>1. PICK v \in Nat : v = c + k /\ v < T
      <4>1. c + k \in Nat /\ c + k < T
        BY <1>1
      <4> QED
        BY <4>1
    <3>2. v \in Int /\ j \in Int /\ c <= v /\ v < c + B
      BY <1>1, <3>1
    <3>3. j * B <= v /\ v < j * B + B
      BY <1>1, <3>2
    <3>4. v \div B = j
      BY <3>2, <3>3, Quotient
    <3> QED
      BY <3>1, <3>4
  <2> QED
    BY <2>1
<1>3. \A k \in 0 .. b - 1 : /\ r * T + (c + k) \in Nat /\ (r * T + (c + k)) % T = c + k
                            /\ (r * T + (c + k)) \div T = r
  <2>1. ASSUME NEW k \in 0 .. b - 1
        PROVE  /\ r * T + (c + k) \in Nat /\ (r * T + (c + k)) % T = c + k
               /\ (r * T + (c + k)) \div T = r
    <3>1a. PICK v \in Nat : v = c + k /\ v < T
      BY <1>2
    <3>1. PICK y : v = c + k /\ v < T /\ y = r * T + v
      BY <3>1a
    <3>2. y \in Nat /\ y % T = v /\ y \div T = r
      BY ZenonT(30), <3>1, InRow
    <3> QED
      BY <3>1, <3>2
  <2> QED
    BY <2>1
<1>4. i \in Nat /\ x \in Nat /\ x % T = c + i /\ x \div T = r /\ (x % T) \div B = j
  BY <1>2, <1>3
<1>5. Visited(x, c, r + 1, b, T)
  BY <1>1, <1>4 DEF Visited
<1>6. ASSUME NEW p \in Nat, Visited(p, c, r, b, T) PROVE Less(p, x, T, B)
  <2>1. PICK v \in Nat, q \in Nat : v = p % T /\ q = p \div T
    BY Remainders
  <2>2. CASE v < c
    <3>1. v \div B < j
      BY <1>1, <2>2, Blocks
    <3> QED
      BY <1>4, <2>1, <3>1 DEF Less
  <2>3. CASE ~(v < c)
    <3>1. v < c + b /\ q < r
      BY <1>6, <2>1, <2>3 DEF Visited
    <3>2. v - c \in 0 .. b - 1 /\ c + (v - c) = v
      BY <1>1, <2>3, <3>1
    <3>3. v \div B = j
      BY <1>2, <3>2
    <3> QED
      BY <1>4, <2>1, <3>1, <3>3 DEF Less
  <2> QED
    BY <2>2, <2>3
<1>7. ASSUME NEW k \in 0 .. i - 1 PROVE Less(r * T + (c + k), x, T, B)
  <2>1. k \in 0 .. b - 1 /\ c + k < c + i /\ c \in Nat
    BY <1>1, <1>4
  <2>2. PICK y \in Nat : y = r * T + (c + k) /\ y % T = c + k /\ y \div T = r
    BY <1>3, <2>1
  <2>3. (y % T) \div B = j
    BY <1>2, <2>1, <2>2
  <2> QED
    BY <1>4, <2>1, <2>2, <2>3 DEF Less
<1> QED
  BY <1>4, <1>5, <1>6, <1>7

\* The next block, at the next row or at the next columns.
NextIs(c, r, b, T, B, n, pos, block) ==
    \E d, q \in Nat :
       /\ AtBlock(d, q, block, T, B, n) /\ pos = q * T + d
       /\ \A p \in Nat : Visited(p, c, r + 1, b, T) => Visited(p, d, q, block, T)
       /\ \A p \in 0 .. n - 1 : Visited(p, d, q, block, T) => Visited(p, c, r + 1, b, T)

LEMMA NextBlock ==
    ASSUME NEW T \in Nat \ {0}, NEW B \in Nat \ {0}, B <= T, NEW n \in Nat,
           NEW c \in Nat, NEW r \in Nat, NEW b, AtBlock(c, r, b, T, B, n), b # 0,
           NEW further, further = r * T + c + T,
           NEW wraps \in BOOLEAN, wraps <=> further >= n,
           NEW pos, pos = IF wraps THEN (further % T) + b ELSE further,
           NEW block, block = IF ~wraps THEN b ELSE IF pos + b > T THEN T - pos ELSE b
    PROVE  NextIs(c, r, b, T, B, n, pos, block)
<1>1. PICK j \in Nat : c = j * B /\ b \in Nat /\ c + b <= T /\ b <= B /\ (b = B \/ c + b = T)
  BY DEF AtBlock
<1>2. PICK u \in Nat : u = (r + 1) * T /\ further = u + c
  <2>1. (r + 1) * T = r * T + T /\ (r + 1) * T \in Nat
    OBVIOUS
  <2> QED
    BY <2>1
<1>3. CASE ~wraps
  <2>1. pos = further /\ block = b
    BY <1>3
  <2>2. r + 1 \in Nat /\ pos = (r + 1) * T + c /\ (r + 1) * T + c < n
    BY <1>2, <1>3, <2>1
  <2>3. AtBlock(c, r + 1, block, T, B, n)
    BY <1>1, <2>1, <2>2 DEF AtBlock
  <2> QED
    BY <2>1, <2>2, <2>3 DEF NextIs
<1>4. CASE wraps
  <2>1. c < T
    BY <1>1
  <2>2. further % T = c
    <3>1. PICK q \in Nat : q = r + 1
      <4>1. r + 1 \in Nat
        OBVIOUS
      <4> QED
        BY <4>1
    <3>2. further = q * T + c
      BY <1>2, <3>1
    <3> QED
      BY <2>1, <3>2, InRow
  <2>3. PICK d \in Nat, z \in Nat : d = c + b /\ z = 0
    BY <1>1
  <2>4. pos = d
    BY <1>4, <2>2, <2>3
  <2>5. pos = z * T + d
    <3>1. z * T = 0
      BY <2>3
    <3> QED
      BY <2>3, <2>4, <3>1
  <2>6. block = IF d + b > T THEN T - d ELSE b
    BY <1>4, <2>4
  <2>7. block \in Nat /\ d + block <= T /\ block <= B /\ (block = 0 => d = T)
        /\ (block = B \/ d + block = T)
    BY <1>1, <2>3, <2>6
  <2>8. block # 0 => \E k \in Nat : d = k * B
    <3>1. block # 0 => b = B
      BY <1>1, <2>3, <2>6
    <3>2. (j + 1) * B = j * B + B /\ j + 1 \in Nat
      OBVIOUS
    <3>3. b = B => d = (j + 1) * B
      BY <1>1, <2>3, <3>2
    <3> QED
      BY <3>1, <3>2, <3>3
  <2>9. AtBlock(d, z, block, T, B, n)
    BY <2>3, <2>7, <2>8 DEF AtBlock
  <2>10. ASSUME NEW p \in Nat PROVE Visited(p, d, z, block, T) <=> p % T < d
    <3>1. PICK y \in Nat, q \in Nat : y = p % T /\ q = p \div T
      BY Remainders
    <3> QED
      BY <2>3, <3>1 DEF Visited
  <2>11. ASSUME NEW p \in Nat, Visited(p, c, r + 1, b, T) PROVE Visited(p, d, z, block, T)
    <3>1. PICK y \in Nat, q \in Nat : y = p % T /\ q = p \div T
      BY Remainders
    <3>2. y < d
      BY <1>1, <2>3, <2>11, <3>1 DEF Visited
    <3> QED
      BY <2>10, <3>1, <3>2
  <2>12. ASSUME NEW p \in 0 .. n - 1, Visited(p, d, z, block, T)
         PROVE  Visited(p, c, r + 1, b, T)
    <3>1. PICK q \in Nat, y \in Nat : /\ p \div T = q /\ p % T = y /\ y < T /\ p = q * T + y
                                      /\ q * T <= p /\ p < (q + 1) * T
      <4>1. p \in Nat
        OBVIOUS
      <4> QED
        BY <4>1, Remainders, Zenon
    <3>2. y < c + b
      BY SMTT(30), <2>3, <2>10, <2>12, <3>1
    <3>3. y < c \/ q < r + 1
      <4>1. ASSUME q >= r + 1, y >= c PROVE FALSE
        <5>1. q * T >= (r + 1) * T
          <6>1. PICK e \in Nat : q = (r + 1) + e
            <7>1. q - (r + 1) \in Nat /\ q = (r + 1) + (q - (r + 1))
              BY <4>1
            <7> QED
              BY <7>1
          <6>2. ((r + 1) + e) * T = (r + 1) * T + e * T /\ e * T >= 0
            OBVIOUS
          <6>3. (r + 1) * T \in Int /\ e * T \in Int
            OBVIOUS
          <6> QED
            BY <6>1, <6>2, <6>3
        <5>2. PICK a \in Nat : a = q * T
          OBVIOUS
        <5>3. p >= further
          BY <1>2, <3>1, <4>1, <5>1, <5>2
        <5>4. further >= n /\ further \in Int
          BY <1>2, <1>4
        <5> QED
          BY <5>3, <5>4
      <4> QED
        BY <4>1
    <3> QED
      BY <3>1, <3>2, <3>3 DEF Visited
  <2> QED
    BY <2>3, <2>5, <2>9, <2>11, <2>12 DEF NextIs
<1> QED
  BY <1>3, <1>4


\* The places in the order of copying.
Tour(Q, c, r, b, T, B) ==
    /\ \A i \in 1 .. Len(Q) : Visited(Q[i], c, r, b, T)
    /\ \A j \in 1 .. Len(Q) : \A i \in 1 .. j - 1 : Less(Q[i], Q[j], T, B)

Covers(Q, c, r, b, T, n) ==
    \A p \in 0 .. n - 1 : Visited(p, c, r, b, T) => \E i \in 1 .. Len(Q) : Q[i] = p

Onward(Q, at, m) == Q \o [i \in 1 .. m |-> at + (i - 1)]

GoesOn(R, Q, at, m) ==
    /\ R \in Seq(Nat) /\ Len(R) = Len(Q) + m
    /\ \A j \in 1 .. Len(Q) : R[j] = Q[j]
    /\ \A k \in 1 .. m : R[Len(Q) + k] = at + (k - 1)

LEMMA OnwardIs ==
    ASSUME NEW Q \in Seq(Nat), NEW at \in Nat, NEW m \in Nat
    PROVE  GoesOn(Onward(Q, at, m), Q, at, m)
<1>1. PICK t : t = [i \in 1 .. m |-> at + (i - 1)]
  OBVIOUS
<1>2. t \in [1 .. m -> Nat]
  BY <1>1
<1>3. t \in Seq(Nat) /\ Len(t) = m
  BY <1>2
<1>4. Onward(Q, at, m) = Q \o t
  BY <1>1 DEF Onward
<1>5. Q \o t \in Seq(Nat) /\ Len(Q \o t) = Len(Q) + m
  BY SMTT(30), <1>3
<1>6. \A j \in 1 .. Len(Q) : (Q \o t)[j] = Q[j]
  BY <1>3
<1>7. ASSUME NEW k \in 1 .. m PROVE (Q \o t)[Len(Q) + k] = at + (k - 1)
  <2>1. (Q \o t)[Len(Q) + k] = t[k]
    BY <1>3
  <2> QED
    BY <1>1, <2>1
<1> QED
  BY <1>4, <1>5, <1>6, <1>7 DEF GoesOn

LEMMA LessIsStrict ==
    ASSUME NEW p \in Nat, NEW T \in Nat \ {0}, NEW B \in Nat \ {0}
    PROVE  ~Less(p, p, T, B)
<1>1. PICK v \in Nat, q \in Nat : v = p % T /\ q = p \div T
  BY Remainders
<1>2. PICK u \in Nat : u = v \div B
  BY Remainders
<1> QED
  BY <1>1, <1>2 DEF Less

Apart(Q, at, m) == \A i \in 1 .. Len(Q) : \A k \in 1 .. m : Q[i] # at + (k - 1)

LEMMA TourGoesOn ==
    ASSUME NEW T \in Nat \ {0}, NEW B \in Nat \ {0}, NEW c \in Nat, NEW r \in Nat, NEW b,
           NEW n, AtBlock(c, r, b, T, B, n), b # 0, NEW Q \in Seq(Nat), Tour(Q, c, r, b, T, B),
           NEW m \in 1 .. b, NEW at \in Nat, at = r * T + c, NEW R, R = Onward(Q, at, m)
    PROVE  Tour(R, c, r + 1, b, T, B) /\ Apart(Q, at, m)
<1>1. PICK w \in Nat : w = Len(Q)
  OBVIOUS
<1>2. /\ R \in Seq(Nat) /\ Len(R) = w + m /\ m \in Nat /\ b \in Nat
      /\ \A j \in 1 .. w : R[j] = Q[j]
      /\ \A k \in 1 .. m : R[w + k] = at + (k - 1)
  <2>1. b \in Nat /\ m \in Nat
    BY DEF AtBlock
  <2>2. GoesOn(R, Q, at, m)
    BY <2>1, OnwardIs
  <2> QED
    BY <1>1, <2>1, <2>2 DEF GoesOn
<1>3. \A k \in 1 .. m : k - 1 \in 0 .. b - 1 /\ at + (k - 1) = r * T + (c + (k - 1))
  <2>1. r * T \in Nat
    OBVIOUS
  <2> QED
    BY <1>2, <2>1
<1>4. ASSUME NEW k \in 1 .. m, NEW x, x = R[w + k]
      PROVE  /\ x \in Nat /\ Visited(x, c, r + 1, b, T) /\ x = at + (k - 1)
             /\ \A p \in Nat : Visited(p, c, r, b, T) => Less(p, x, T, B)
             /\ \A h \in 1 .. k - 1 : Less(R[w + h], x, T, B)
  <2>1. PICK i \in 0 .. b - 1 : i = k - 1 /\ x = r * T + (c + i)
    BY <1>2, <1>3, <1>4
  <2>2. /\ x \in Nat /\ Visited(x, c, r + 1, b, T)
        /\ \A p \in Nat : Visited(p, c, r, b, T) => Less(p, x, T, B)
        /\ \A g \in 0 .. i - 1 : Less(r * T + (c + g), x, T, B)
    BY <2>1, BlockAfter
  <2>3. ASSUME NEW h \in 1 .. k - 1 PROVE Less(R[w + h], x, T, B)
    <3>1. h \in 1 .. m /\ h - 1 \in 0 .. i - 1
      BY <1>2, <2>1
    <3>2. R[w + h] = r * T + (c + (h - 1))
      BY <1>2, <1>3, <3>1
    <3> QED
      BY <2>2, <3>1, <3>2
  <2> QED
    BY <1>2, <1>4, <2>2, <2>3
<1>5. ASSUME NEW j \in 1 .. w + m PROVE j \in 1 .. w \/ \E k \in 1 .. m : j = w + k
  <2>1. j > w => j - w \in 1 .. m /\ j = w + (j - w)
    BY <1>2
  <2> QED
    BY <1>2, <2>1
<1>6. ASSUME NEW j \in 1 .. w PROVE Q[j] \in Nat /\ Visited(Q[j], c, r, b, T) /\ Visited(Q[j], c, r + 1, b, T)
  <2>1. Q[j] \in Nat /\ Visited(Q[j], c, r, b, T)
    BY <1>1 DEF Tour
  <2>2. PICK y \in Nat, q \in Nat : y = Q[j] % T /\ q = Q[j] \div T
    BY SMTT(30), <2>1, Remainders
  <2> QED
    BY <2>1, <2>2 DEF Visited
<1>7. \A j \in 1 .. w + m : Visited(R[j], c, r + 1, b, T)
  BY <1>2, <1>4, <1>5, <1>6
<1>8. ASSUME NEW j \in 1 .. w + m, NEW i \in 1 .. j - 1 PROVE Less(R[i], R[j], T, B)
  <2>1. CASE j \in 1 .. w
    <3>0. i \in 1 .. w
      BY <2>1
    <3>1. i \in 1 .. w /\ R[i] = Q[i] /\ R[j] = Q[j]
      BY <1>2, <2>1, <3>0
    <3> QED
      BY <1>1, <2>1, <3>1 DEF Tour
  <2>2. ASSUME NEW k \in 1 .. m, j = w + k PROVE Less(R[i], R[j], T, B)
    <3>1. CASE i \in 1 .. w
      BY <1>2, <1>4, <1>6, <2>2, <3>1
    <3>2. CASE i \notin 1 .. w
      <4>1. i - w \in 1 .. k - 1 /\ w + (i - w) = i
        BY <1>2, <2>2, <3>2
      <4> QED
        BY <1>4, <2>2, <4>1
    <3> QED
      BY <3>1, <3>2
  <2> QED
    BY <1>5, <2>1, <2>2
<1>9. ASSUME NEW i \in 1 .. w, NEW k \in 1 .. m PROVE Q[i] # at + (k - 1)
  <2>1. PICK x : x = R[w + k]
    OBVIOUS
  <2>2. x \in Nat /\ x = at + (k - 1) /\ Less(Q[i], x, T, B)
    BY <1>4, <1>6, <2>1
  <2> QED
    BY <2>2, LessIsStrict
<1> QED
  BY <1>1, <1>2, <1>7, <1>8, <1>9 DEF Tour, Apart

LEMMA CoversMore ==
    ASSUME NEW T \in Nat \ {0}, NEW c \in Nat, NEW r \in Nat, NEW b \in Nat, NEW n \in Nat,
           NEW Q \in Seq(Nat), Covers(Q, c, r, b, T, n),
           NEW m \in Nat, NEW at \in Nat, at = r * T + c,
           \A k \in 0 .. b - 1 : at + k < n => k < m
    PROVE  Covers(Onward(Q, at, m), c, r + 1, b, T, n)
<1>1a. PICK w \in Nat : w = Len(Q)
  OBVIOUS
<1>1. PICK R : w = Len(Q) /\ R = Onward(Q, at, m)
  BY <1>1a
<1>2. /\ R \in Seq(Nat) /\ Len(R) = w + m
      /\ \A j \in 1 .. w : R[j] = Q[j]
      /\ \A k \in 1 .. m : R[w + k] = at + (k - 1)
  <2>2. GoesOn(R, Q, at, m)
    BY <1>1, OnwardIs
  <2> QED
    BY <1>1, <2>2 DEF GoesOn
<1>3. ASSUME NEW p \in 0 .. n - 1, Visited(p, c, r + 1, b, T)
      PROVE  \E i \in 1 .. w + m : R[i] = p
  <2>1. CASE Visited(p, c, r, b, T)
    <3>1. PICK i \in 1 .. w : Q[i] = p
      BY <1>1, <2>1 DEF Covers
    <3>2. i \in 1 .. w + m
      OBVIOUS
    <3> QED
      BY <1>2, <3>1, <3>2
  <2>2. CASE ~Visited(p, c, r, b, T)
    <3>1. PICK q \in Nat, y \in Nat : /\ p \div T = q /\ p % T = y /\ y < T /\ p = q * T + y
                                      /\ q * T <= p /\ p < (q + 1) * T
      <4>1. p \in Nat
        OBVIOUS
      <4> QED
        BY <4>1, Remainders, Zenon
    <3>2. q = r /\ y >= c /\ y < c + b
      BY <1>3, <2>2, <3>1 DEF Visited
    <3>3. p = at + (y - c) /\ y - c \in 0 .. b - 1
      <4>1. p = r * T + y /\ r * T \in Nat
        BY <3>1, <3>2
      <4> QED
        BY <3>2, <4>1
    <3>4. y - c + 1 \in 1 .. m
      BY <3>3
    <3>6. PICK k \in 1 .. m : k = y - c + 1
      BY <3>4
    <3>7. at + (k - 1) = p
      BY <3>3, <3>6
    <3>8. R[w + k] = at + (k - 1)
      BY <1>2
    <3>9. w + k \in 1 .. w + m
      OBVIOUS
    <3>5. R[w + k] = p /\ w + k \in 1 .. w + m
      BY <3>7, <3>8, <3>9
    <3> QED
      BY <3>5
  <2> QED
    BY <2>1, <2>2
<1> QED
  BY <1>1, <1>2, <1>3 DEF Covers

\* Tours are told apart by the places only.
LEMMA SamePlaces ==
    ASSUME NEW Q \in Seq(Nat), NEW c, NEW r, NEW b, NEW d, NEW q, NEW a, NEW T, NEW B, NEW n,
           Tour(Q, c, r, b, T, B),
           \A p \in Nat : Visited(p, c, r, b, T) => Visited(p, d, q, a, T),
           \A p \in 0 .. n - 1 : Visited(p, d, q, a, T) => Visited(p, c, r, b, T)
    PROVE  /\ Tour(Q, d, q, a, T, B)
           /\ Covers(Q, c, r, b, T, n) => Covers(Q, d, q, a, T, n)
<1>1. \A i \in 1 .. Len(Q) : Q[i] \in Nat
  OBVIOUS
<1> QED
  BY <1>1 DEF Tour, Covers


-----------------------------------------------------------------------------
(* Counting places.                                                        *)

Different(Q) == \A i, j \in 1 .. Len(Q) : Q[i] = Q[j] => i = j

LEMMA TourDiffers ==
    ASSUME NEW T \in Nat \ {0}, NEW B \in Nat \ {0}, NEW c, NEW r, NEW b,
           NEW Q \in Seq(Nat), Tour(Q, c, r, b, T, B)
    PROVE  Different(Q)
<1>1. ASSUME NEW i \in 1 .. Len(Q), NEW j \in 1 .. Len(Q), i < j PROVE Q[i] # Q[j]
  <2>1. i \in 1 .. j - 1
    BY <1>1
  <2>2. Less(Q[i], Q[j], T, B) /\ Q[j] \in Nat
    BY <2>1 DEF Tour
  <2> QED
    BY <2>2, LessIsStrict
<1> QED
  BY <1>1 DEF Different

\* Different places below n are n at most, and if they are n, they are all of them.
LEMMA DifferentPlaces ==
    ASSUME NEW n \in Nat, NEW Q \in Seq(Nat), Different(Q), \A i \in 1 .. Len(Q) : Q[i] < n
    PROVE  /\ Len(Q) <= n
           /\ Len(Q) = n => \A p \in 0 .. n - 1 : \E i \in 1 .. Len(Q) : Q[i] = p
<1>1a. PICK l \in Nat : l = Len(Q)
  OBVIOUS
<1>1. PICK P, D : l = Len(Q) /\ P = 0 .. n - 1 /\ D = 1 .. l
  BY <1>1a
<1>2. /\ IsFiniteSet(P) /\ Cardinality(P) = n
      /\ IsFiniteSet(D) /\ Cardinality(D) = l
  <2>1. 0 \in Int /\ n - 1 \in Int /\ 1 \in Int /\ l \in Int
    BY <1>1
  <2>2. /\ IsFiniteSet(P) /\ Cardinality(P) = IF 0 > n - 1 THEN 0 ELSE n - 1 - 0 + 1
    BY <1>1, <2>1, FS_Interval
  <2>3. /\ IsFiniteSet(D) /\ Cardinality(D) = IF 1 > l THEN 0 ELSE l - 1 + 1
    BY <1>1, <2>1, FS_Interval
  <2> QED
    BY <1>1, <2>2, <2>3
<1>3. Q \in [D -> P]
  <2>1. \A i \in D : Q[i] \in P
    BY <1>1
  <2>2. Q \in [D -> Nat]
    BY <1>1
  <2> QED
    BY <2>1, <2>2
<1>4. Q \in Injection(D, P)
  BY <1>1, <1>3 DEF Injection, IsInjective, Different
<1>5. l <= n /\ (l = n <=> Q \in Surjection(D, P))
  BY <1>2, <1>4, FS_Injection
<1> QED
  BY <1>1, <1>5 DEF Surjection

\* Sequences that have every place below n have n places at least.
LEMMA AllPlaces ==
    ASSUME NEW n \in Nat, NEW Q \in Seq(Nat),
           \A p \in 0 .. n - 1 : \E i \in 1 .. Len(Q) : Q[i] = p
    PROVE  n <= Len(Q)
<1>1a. PICK l \in Nat : l = Len(Q)
  OBVIOUS
<1>1. PICK P, D : l = Len(Q) /\ P = 0 .. n - 1 /\ D = 1 .. l
  BY <1>1a
<1>2. /\ IsFiniteSet(P) /\ Cardinality(P) = n
      /\ IsFiniteSet(D) /\ Cardinality(D) = l
  <2>1. 0 \in Int /\ n - 1 \in Int /\ 1 \in Int /\ l \in Int
    BY <1>1
  <2>2. /\ IsFiniteSet(P) /\ Cardinality(P) = IF 0 > n - 1 THEN 0 ELSE n - 1 - 0 + 1
    BY <1>1, <2>1, FS_Interval
  <2>3. /\ IsFiniteSet(D) /\ Cardinality(D) = IF 1 > l THEN 0 ELSE l - 1 + 1
    BY <1>1, <2>1, FS_Interval
  <2> QED
    BY <1>1, <2>2, <2>3
<1>3. PICK g : g = [p \in P |-> CHOOSE i \in D : Q[i] = p]
  OBVIOUS
<1>4. \A p \in P : g[p] \in D /\ Q[g[p]] = p
  BY <1>1, <1>3
<1>5. g \in Injection(P, D)
  BY <1>3, <1>4 DEF Injection, IsInjective
<1>6. Cardinality(P) <= Cardinality(D)
  BY <1>2, <1>5, FS_Injection
<1> QED
  BY <1>1, <1>2, <1>6


-----------------------------------------------------------------------------
(* What the strided programs have written.                                 *)

\* stridecat61: the bytes of the places, one after another.
Gathered(Q, g, in) ==
    /\ g.pos = Len(Q) /\ Len(g.data) = Len(Q)
    /\ \A i \in 1 .. Len(Q) : Q[i] < Len(in) /\ g.data[i] = in[Q[i] + 1]

LEMMA GatheredMore ==
    ASSUME NEW g \in OutFiles, NEW in \in Seq(Bytes), NEW Q \in Seq(Nat), Gathered(Q, g, in),
           NEW s \in Seq(Bytes), s # << >>, NEW at \in Nat,
           \A i \in 1 .. Len(s) : s[i] = in[at + i] /\ at + i \in 1 .. Len(in)
    PROVE  Gathered(Onward(Q, at, Len(s)), Write(g, s), in)
<1>1a. PICK w \in Nat, m \in Nat, l \in Nat : w = Len(Q) /\ m = Len(s) /\ l = Len(in)
  OBVIOUS
<1>1. PICK R : w = Len(Q) /\ m = Len(s) /\ l = Len(in) /\ R = Onward(Q, at, m)
  BY <1>1a
<1>2. /\ R \in Seq(Nat) /\ Len(R) = w + m
      /\ \A j \in 1 .. w : R[j] = Q[j]
      /\ \A k \in 1 .. m : R[w + k] = at + (k - 1)
  <2>2. GoesOn(R, Q, at, m)
    BY <1>1, OnwardIs
  <2> QED
    BY <1>1, <2>2 DEF GoesOn
<1>3. PICK d : d = Write(g, s).data
  OBVIOUS
<1>4. m # 0 /\ g.pos = w /\ Len(g.data) = w /\ \A i \in 1 .. w : Q[i] < l /\ g.data[i] = in[Q[i] + 1]
  BY <1>1 DEF Gathered
<1>5. /\ Write(g, s).pos = w + m /\ Len(d) = w + m
      /\ \A k \in 1 .. Len(d) : d[k] = IF k > w /\ k <= w + m THEN s[k - w]
                                       ELSE IF k <= w THEN g.data[k] ELSE Hole
  <2>1. /\ Write(g, s).pos = g.pos + Len(s)
        /\ Len(Write(g, s).data) = IF s = << >> \/ Len(g.data) >= g.pos + Len(s)
                                   THEN Len(g.data) ELSE g.pos + Len(s)
        /\ \A k \in 1 .. Len(Write(g, s).data) :
              Write(g, s).data[k] = IF k > g.pos /\ k <= g.pos + Len(s) THEN s[k - g.pos]
                                    ELSE IF k <= Len(g.data) THEN g.data[k] ELSE Hole
    BY WriteIs
  <2>2. ~(w >= w + m)
    BY <1>4
  <2> QED
    BY <1>1, <1>3, <1>4, <2>1, <2>2
<1>6. ASSUME NEW j \in 1 .. w + m PROVE R[j] < l /\ d[j] = in[R[j] + 1]
  <2>1. CASE j <= w
    <3>1. j \in 1 .. w /\ ~(j > w)
      BY <2>1
    <3>2. R[j] = Q[j] /\ d[j] = g.data[j]
      BY <1>2, <1>5, <3>1
    <3> QED
      BY <1>4, <3>1, <3>2
  <2>2. CASE ~(j <= w)
    <3>1. PICK k \in 1 .. m : j = w + k /\ k = j - w
      <4>1. j - w \in 1 .. m /\ j = w + (j - w)
        BY <2>2
      <4> QED
        BY <4>1
    <3>4. j > w /\ j <= w + m /\ j \in 1 .. Len(d)
      BY <1>5, <2>2
    <3>5. d[j] = s[j - w]
      BY <1>5, <3>4
    <3>2. R[j] = at + (k - 1) /\ d[j] = s[k]
      BY <1>2, <3>1, <3>5
    <3>3. s[k] = in[at + k] /\ at + k <= l /\ at + (k - 1) + 1 = at + k
      BY <1>1
    <3> QED
      BY <1>1, <3>2, <3>3
  <2> QED
    BY <2>1, <2>2
<1> QED
  BY <1>1, <1>2, <1>3, <1>5, <1>6 DEF Gathered

\* ostridecat61: the bytes, one after another, in the places, and holes elsewhere.
Scattered(Q, g, in) ==
    /\ Len(Q) <= Len(in)
    /\ \A i \in 1 .. Len(Q) : Q[i] + 1 \in 1 .. Len(g.data) /\ g.data[Q[i] + 1] = in[i]
    /\ \A p \in 1 .. Len(g.data) : g.data[p] = Hole \/ \E i \in 1 .. Len(Q) : Q[i] + 1 = p

LEMMA ScatteredMore ==
    ASSUME NEW g \in OutFiles, NEW in \in Seq(Bytes), NEW Q \in Seq(Nat), Scattered(Q, g, in),
           NEW s \in Seq(Bytes), s # << >>,
           \A i \in 1 .. Len(s) : s[i] = in[Len(Q) + i] /\ Len(Q) + i \in 1 .. Len(in),
           \A i \in 1 .. Len(Q) : \A k \in 1 .. Len(s) : Q[i] # g.pos + (k - 1)
    PROVE  Scattered(Onward(Q, g.pos, Len(s)), Write(g, s), in)
<1>1. PICK w \in Nat, m \in Nat, l \in Nat, at \in Nat, e \in Nat :
              /\ w = Len(Q) /\ m = Len(s) /\ l = Len(in) /\ at = g.pos
              /\ e = Len(g.data)
  BY DEF OutFiles
<1>0. PICK R : R = Onward(Q, at, m)
  OBVIOUS
<1>2. /\ R \in Seq(Nat) /\ Len(R) = w + m
      /\ \A j \in 1 .. w : R[j] = Q[j]
      /\ \A k \in 1 .. m : R[w + k] = at + (k - 1)
  <2>2. GoesOn(R, Q, at, m)
    BY <1>0, <1>1, OnwardIs
  <2> QED
    BY <1>1, <2>2 DEF GoesOn
<1>3. PICK d, z : d = Write(g, s).data /\ z = Len(d)
  OBVIOUS
<1>4. /\ m # 0 /\ w <= l
      /\ \A i \in 1 .. w : Q[i] + 1 \in 1 .. e /\ g.data[Q[i] + 1] = in[i]
      /\ \A p \in 1 .. e : g.data[p] = Hole \/ \E i \in 1 .. w : Q[i] + 1 = p
  BY <1>1 DEF Scattered
<1>5. /\ z = (IF e >= at + m THEN e ELSE at + m)
      /\ \A k \in 1 .. z : d[k] = IF k > at /\ k <= at + m THEN s[k - at]
                                  ELSE IF k <= e THEN g.data[k] ELSE Hole
  <2>1. /\ Len(Write(g, s).data) = IF s = << >> \/ Len(g.data) >= g.pos + Len(s)
                                   THEN Len(g.data) ELSE g.pos + Len(s)
        /\ \A k \in 1 .. Len(Write(g, s).data) :
              Write(g, s).data[k] = IF k > g.pos /\ k <= g.pos + Len(s) THEN s[k - g.pos]
                                    ELSE IF k <= Len(g.data) THEN g.data[k] ELSE Hole
    BY WriteIs
  <2> QED
    BY <1>1, <1>3, <2>1
<1>6. z \in Nat /\ e <= z /\ at + m <= z
  BY <1>5
<1>7. ASSUME NEW j \in 1 .. w + m PROVE R[j] + 1 \in 1 .. z /\ d[R[j] + 1] = in[j]
  <2>1. CASE j <= w
    <3>1. j \in 1 .. w
      BY <2>1
    <3>2. PICK q \in Nat : q = Q[j] /\ q = R[j]
      BY <1>1, <1>2, <3>1
    <3>3. q + 1 \in 1 .. e /\ g.data[q + 1] = in[j]
      BY <1>4, <3>1, <3>2
    <3>4. ~(q + 1 > at /\ q + 1 <= at + m)
      <4>1. ASSUME q + 1 > at, q + 1 <= at + m PROVE FALSE
        <5>1. PICK k \in 1 .. m : k = q - at + 1
          <6>1. q - at + 1 \in 1 .. m
            BY <4>1
          <6> QED
            BY <6>1
        <5>2. q = at + (k - 1)
          BY <5>1
        <5>3. Q[j] # g.pos + (k - 1)
          BY <1>1, <3>1
        <5> QED
          BY <1>1, <3>2, <5>2, <5>3
      <4> QED
        BY <4>1
    <3>5. q + 1 \in 1 .. z /\ q + 1 <= e
      BY <1>6, <3>3
    <3>6. d[q + 1] = g.data[q + 1]
      BY <1>5, <3>4, <3>5
    <3> QED
      BY <3>2, <3>3, <3>5, <3>6
  <2>2. CASE ~(j <= w)
    <3>1. PICK k \in 1 .. m : j = w + k /\ k = j - w
      <4>1. j - w \in 1 .. m /\ j = w + (j - w)
        BY <2>2
      <4> QED
        BY <4>1
    <3>2. R[j] = at + (k - 1) /\ s[k] = in[j]
      BY <1>1, <1>2, <3>1
    <3>3. at + k \in 1 .. z /\ at + k > at /\ at + k <= at + m /\ at + k - at = k
          /\ at + (k - 1) + 1 = at + k
      BY <1>6
    <3>4. d[at + k] = s[k]
      BY <1>5, <3>3
    <3> QED
      BY <3>2, <3>3, <3>4
  <2> QED
    BY <2>1, <2>2
<1>8. ASSUME NEW p \in 1 .. z PROVE d[p] = Hole \/ \E i \in 1 .. w + m : R[i] + 1 = p
  <2>1. CASE p > at /\ p <= at + m
    <3>1. PICK k \in 1 .. m : k = p - at
      <4>1. p - at \in 1 .. m
        BY <1>6, <2>1
      <4> QED
        BY <4>1
    <3>2. w + k \in 1 .. w + m /\ at + (k - 1) + 1 = p
      BY <1>6, <3>1
    <3> QED
      BY <1>2, <3>2
  <2>2. CASE ~(p > at /\ p <= at + m) /\ p <= e
    <3>1. d[p] = g.data[p] /\ p \in 1 .. e
      BY <1>5, <1>6, <2>2
    <3>2. CASE g.data[p] = Hole
      BY <3>1, <3>2
    <3>3. CASE \E i \in 1 .. w : Q[i] + 1 = p
      <4>1. PICK i \in 1 .. w : Q[i] + 1 = p
        BY <3>3
      <4>2. i \in 1 .. w + m /\ R[i] = Q[i]
        BY <1>2
      <4> QED
        BY <4>1, <4>2
    <3> QED
      BY <1>4, <3>1, <3>2, <3>3
  <2>3. CASE ~(p > at /\ p <= at + m) /\ ~(p <= e)
    BY <1>5, <2>3
  <2> QED
    BY <2>1, <2>2, <2>3
<1>9. w + m <= l
  <2>1. m \in 1 .. m
    BY <1>4
  <2> QED
    BY <1>1, <2>1
<1> QED
  BY <1>0, <1>1, <1>2, <1>3, <1>7, <1>8, <1>9 DEF Scattered


\* The blocks within a stride, and what has been copied of them: the places Q.
InStrides == args.size < 0 /\ BlockSize <= args.stride

Strides(c, r, Q) ==
    /\ AtBlock(c, r, local.block, args.stride, BlockSize, Len(Input))
    /\ local.pos = r * args.stride + c /\ local.written = Len(Q)
    /\ Tour(Q, c, r, local.block, args.stride, BlockSize)
    /\ Program = "stride" =>
         /\ inf[1].pos = local.pos /\ Gathered(Q, outf[1], Input)
         /\ Covers(Q, c, r, local.block, args.stride, Len(Input))
    /\ Program = "ostride" =>
         /\ inf[1].pos = Len(Q) /\ outf[1].pos = local.pos /\ Scattered(Q, outf[1], Input)
         /\ \/ Len(Q) = Len(Input)
            \/ Covers(Q, c, r, local.block, args.stride, Len(Input))
    /\ pc = "done" => Len(Q) = Len(Input)

StridedOK ==
    InStrides => /\ local.size = Len(Input)
                 /\ \E c, r \in Nat : \E Q \in Seq(Nat) : Strides(c, r, Q)

\* A strided program that stops has copied everything.
LEMMA StridesEnd ==
    ASSUME Usable, Single, Program \in {"stride", "ostride"}, InStrides, local.size = Len(Input),
           NEW c \in Nat, NEW r \in Nat, NEW Q \in Seq(Nat), Strides(c, r, Q),
           local.written >= local.size \/ BytesRead(inf[1], local.block) = << >>
    PROVE  Len(Q) = Len(Input)
<1>1. PICK T \in Nat \ {0}, B \in Nat \ {0}, n \in Nat, b \in Nat, w \in Nat :
              /\ T = args.stride /\ B = BlockSize /\ n = Len(Input) /\ b = local.block
              /\ w = Len(Q)
  <2>1. args.stride \in Nat \ {0}
    BY DEF Usable, ArgTypes
  <2>2. local.block \in Nat
    BY DEF Strides, AtBlock
  <2> QED
    BY SMTT(30), <2>1, <2>2, BlockSizeIs, InputData
<1>2. Tour(Q, c, r, b, T, B) /\ AtBlock(c, r, b, T, B, n) /\ local.written = w
  BY <1>1 DEF Strides
<1>3. Different(Q)
  BY <1>2, TourDiffers
<1>4. w <= n
  <2>1. CASE Program = "stride"
    <3>1. \A i \in 1 .. Len(Q) : Q[i] < n
      BY <1>1, <2>1 DEF Strides, Gathered
    <3> QED
      BY <1>1, <1>3, <3>1, DifferentPlaces
  <2>2. CASE Program = "ostride"
    BY <1>1, <2>2 DEF Strides, Scattered
  <2> QED
    BY <2>1, <2>2
<1>5. CASE local.written >= local.size
  BY <1>1, <1>2, <1>4, <1>5
<1>6. PICK f \in InFiles : f = inf[1] /\ f.data = Input /\ f.pos \in Nat
  BY InputData DEF InFiles
<1>7. CASE ~(local.written >= local.size)
  <2>1. b = 0 \/ f.pos >= n
    <3>1. BytesRead(f, b) = << >>
      BY <1>1, <1>6, <1>7
    <3>2. BytesRead(f, b) = << >> <=> b = 0 \/ f.pos >= Len(f.data)
      BY ReadIs
    <3> QED
      BY <1>1, <1>6, <3>1, <3>2
  <2>2. w < n
    BY <1>1, <1>2, <1>7
  <2>3. Covers(Q, c, r, b, T, n)
    BY <1>1, <2>2 DEF Strides
  <2>4. \A p \in 0 .. n - 1 : Visited(p, c, r, b, T)
    <3>1. ASSUME NEW p \in 0 .. n - 1 PROVE p % T < c
      <4>1. PICK y \in Nat : /\ y = p % T /\ y < T /\ y <= p
        <5>1. PICK q \in Nat, z \in Nat : /\ p \div T = q /\ p % T = z /\ z < T /\ p = q * T + z
                                          /\ q * T <= p /\ p < (q + 1) * T
          <6>1. p \in Nat
            OBVIOUS
          <6> QED
            BY <6>1, Remainders, Zenon
        <5>2. PICK u \in Nat : u = q * T
          OBVIOUS
        <5>3. z <= p
          BY <5>1, <5>2
        <5> QED
          BY <5>1, <5>3
      <4>2. CASE b = 0
        BY <1>2, <4>1, <4>2 DEF AtBlock
      <4>3. CASE b # 0
        <5>1. f.pos >= n
          BY <2>1, <4>3
        <5>2. Program = "stride"
          <6>1. Program = "ostride" => f.pos = w
            BY <1>1, <1>6 DEF Strides
          <6> QED
            BY <2>2, <5>1, <6>1
        <5>3. f.pos = r * T + c
          BY <1>1, <1>6, <5>2 DEF Strides
        <5>4. r = 0
          BY <1>2, <5>1, <5>3 DEF AtBlock
        <5>5. f.pos = c
          BY <5>3, <5>4
        <5> QED
          BY <4>1, <5>1, <5>5
      <4> QED
        BY <4>2, <4>3
    <3> QED
      BY <3>1 DEF Visited
  <2>5. \A p \in 0 .. n - 1 : \E i \in 1 .. Len(Q) : Q[i] = p
    BY <2>3, <2>4 DEF Covers
  <2>6. n <= Len(Q)
    BY <2>5, AllPlaces
  <2> QED
    BY <1>1, <2>2, <2>6
<1> QED
  BY <1>5, <1>7


\* A turn of a strided program.
StridesOn(s, pos, wraps) ==
    /\ IF Program = "stride" THEN Copy(Seek(Past(inf[1], s), pos), Write(outf[1], s))
                             ELSE Copy(Past(inf[1], s), Seek(Write(outf[1], s), pos))
    /\ local' = [local EXCEPT !.written = @ + Len(s), !.pos = pos,
                              !.block = IF wraps THEN CutShort(@, pos) ELSE @]
    /\ UNCHANGED <<command, args, lengths, turns, pc>>

LEMMA StridesOnKeeps ==
    ASSUME Usable, Single, NEW s \in Seq(Bytes), NEW pos \in Nat, NEW wraps \in BOOLEAN,
           StridesOn(s, pos, wraps)
    PROVE  /\ Single' /\ Input' = Input
           /\ inf'[1] = IF Program = "stride" THEN Seek(Past(inf[1], s), pos) ELSE Past(inf[1], s)
           /\ outf'[1] = IF Program = "stride" THEN Write(outf[1], s)
                                               ELSE Seek(Write(outf[1], s), pos)
<1>1. PICK f \in InFiles, g \in OutFiles : f = inf[1] /\ g = outf[1] /\ f.data = Input
  BY InputData
<1>2. Past(f, s) \in InFiles /\ Past(f, s).data = Input
  BY <1>1, PastIs
<1>3. Seek(Past(f, s), pos) \in InFiles /\ Seek(Past(f, s), pos).data = Input
  BY <1>2, SeekIs
<1>4. Write(g, s) \in OutFiles
  BY WriteIs
<1>5. Seek(Write(g, s), pos) \in OutFiles
  BY <1>4, SeekIs
<1>6. local' \in LocalTypes
  <2>1. local \in LocalTypes /\ Len(s) \in Nat /\ args.stride \in Nat
    BY DEF Single, Usable, ArgTypes
  <2>2. PICK e \in Int : e = IF wraps THEN CutShort(local.block, pos) ELSE local.block
    BY <2>1 DEF LocalTypes, CutShort
  <2>4. PICK x \in Nat : x = local.written + Len(s)
    BY <2>1 DEF LocalTypes
  <2>3. local' = [local EXCEPT !.written = x, !.pos = pos, !.block = e]
    BY <2>2, <2>4 DEF StridesOn
  <2> QED
    BY <2>1, <2>3 DEF LocalTypes
<1>7. lengths' = lengths
  BY DEF StridesOn
<1>8. CASE Program = "stride"
  <2>1. Copy(Seek(Past(f, s), pos), Write(g, s))
    BY <1>1, <1>8 DEF StridesOn
  <2> QED
    BY <1>1, <1>3, <1>4, <1>6, <1>7, <1>8, <2>1, CopyKeeps
<1>9. CASE Program # "stride"
  <2>1. Copy(Past(f, s), Seek(Write(g, s), pos))
    BY <1>1, <1>9 DEF StridesOn
  <2> QED
    BY <1>1, <1>2, <1>5, <1>6, <1>7, <1>9, <2>1, CopyKeeps
<1> QED
  BY <1>8, <1>9

\* The places go on.
LEMMA StridesGoOn ==
    ASSUME Usable, Single, Program \in {"stride", "ostride"}, InStrides, local.size = Len(Input),
           NEW c \in Nat, NEW r \in Nat, NEW Q \in Seq(Nat), Strides(c, r, Q), pc = "copy",
           NEW s, s = BytesRead(inf[1], local.block), s # << >>,
           NEW further, further = local.pos + args.stride,
           NEW wraps \in BOOLEAN, wraps <=> further >= local.size,
           NEW pos, pos = IF wraps THEN (further % args.stride) + local.block ELSE further,
           StridesOn(s, pos, wraps)
    PROVE  \E d, q \in Nat : \E R \in Seq(Nat) : Strides(d, q, R)'
<1>1. PICK T \in Nat \ {0}, B \in Nat \ {0}, n \in Nat, b \in Nat, w \in Nat, at \in Nat :
              /\ T = args.stride /\ B = BlockSize /\ n = Len(Input) /\ b = local.block
              /\ w = Len(Q) /\ at = r * T + c /\ at = local.pos
  <2>1. args.stride \in Nat \ {0}
    BY DEF Usable, ArgTypes
  <2>2. local.block \in Nat
    BY DEF Strides, AtBlock
  <2>3. PICK T \in Nat \ {0} : T = args.stride
    BY <2>1
  <2>4. PICK u \in Nat : u = r * T
    OBVIOUS
  <2>5. local.pos = u + c
    BY <2>3, <2>4 DEF Strides
  <2>6. PICK B \in Nat \ {0}, n \in Nat, w \in Nat : B = BlockSize /\ n = Len(Input) /\ w = Len(Q)
    BY BlockSizeIs, InputData
  <2>7. PICK at \in Nat : at = u + c
    OBVIOUS
  <2> QED
    BY <2>2, <2>3, <2>4, <2>5, <2>6, <2>7
<1>2. /\ Tour(Q, c, r, b, T, B) /\ AtBlock(c, r, b, T, B, n) /\ local.written = w
      /\ B <= T /\ local.size = n
  BY <1>1 DEF Strides, InStrides
<1>3. PICK f \in InFiles, g \in OutFiles : f = inf[1] /\ g = outf[1] /\ f.data = Input /\ f.pos \in Nat
  BY InputData DEF InFiles
<1>4. PICK m \in Nat : /\ m = Len(s) /\ m = Least(b, n - f.pos) /\ f.pos < n /\ b # 0 /\ m \in 1 .. b
                       /\ s \in Seq(Bytes)
                       /\ \A i \in 1 .. m : s[i] = Input[f.pos + i] /\ f.pos + i \in 1 .. n
  <2>1. s = BytesRead(f, b)
    BY <1>1, <1>3
  <2>2. /\ s \in Seq(Bytes)
        /\ Len(s) = (IF f.pos >= Len(f.data) THEN 0 ELSE Least(b, Len(f.data) - f.pos))
        /\ (s = << >> <=> b = 0 \/ f.pos >= Len(f.data))
        /\ \A i \in 1 .. Len(s) : s[i] = f.data[f.pos + i] /\ f.pos + i \in 1 .. Len(f.data)
    BY <2>1, ReadIs
  <2>5. s # << >>
    OBVIOUS
  <2>6. f.pos \in Nat /\ Len(f.data) = n
    BY <1>1, <1>3
  <2>3. b # 0 /\ f.pos < n /\ Len(s) = Least(b, n - f.pos)
    <3>1. b # 0 /\ ~(f.pos >= n)
      BY <2>2, <2>5, <2>6
    <3> QED
      BY <2>2, <2>6, <3>1
  <2>4. Least(b, n - f.pos) \in 1 .. b
    BY <1>3, <2>3 DEF Least
  <2>7. PICK m \in Nat : m = Least(b, n - f.pos) /\ m \in 1 .. b
    BY <2>4
  <2>8. m = Len(s)
    BY <2>3, <2>7
  <2>9. \A i \in 1 .. m : s[i] = Input[f.pos + i] /\ f.pos + i \in 1 .. n
    BY <1>3, <2>2, <2>6, <2>8
  <2> QED
    BY <2>2, <2>3, <2>7, <2>8, <2>9
<1>5. PICK block : block = IF ~wraps THEN b ELSE IF pos + b > T THEN T - pos ELSE b
  OBVIOUS
<1>6. further = r * T + c + T /\ (wraps <=> further >= n)
      /\ pos = (IF wraps THEN (further % T) + b ELSE further)
  BY <1>1, <1>2
<1>7. PICK d \in Nat, q \in Nat :
         /\ AtBlock(d, q, block, T, B, n) /\ pos = q * T + d
         /\ \A p \in Nat : Visited(p, c, r + 1, b, T) => Visited(p, d, q, block, T)
         /\ \A p \in 0 .. n - 1 : Visited(p, d, q, block, T) => Visited(p, c, r + 1, b, T)
  <2>1. B <= T /\ AtBlock(c, r, b, T, B, n) /\ b # 0
    BY <1>2, <1>4
  <2>2. NextIs(c, r, b, T, B, n, pos, block)
    BY <2>1, <1>5, <1>6, NextBlock
  <2> QED
    BY <2>2, Zenon DEF NextIs
<1>8. pos \in Nat
  <2>1. PICK u \in Nat : u = q * T
    OBVIOUS
  <2>2. pos = u + d
    BY <1>7, <2>1
  <2> QED
    BY <2>2
<1>9. PICK R : R = Onward(Q, at, m)
  OBVIOUS
<1>10. GoesOn(R, Q, at, m)
  BY <1>9, OnwardIs
<1>11. R \in Seq(Nat) /\ Len(R) = w + m
  BY <1>1, <1>10 DEF GoesOn
<1>12. /\ Tour(R, c, r + 1, b, T, B)
       /\ \A i \in 1 .. Len(Q) : \A k \in 1 .. m : Q[i] # at + (k - 1)
  <2>1. AtBlock(c, r, b, T, B, n) /\ b # 0 /\ Tour(Q, c, r, b, T, B) /\ m \in 1 .. b /\ at = r * T + c
    BY <1>1, <1>2, <1>4
  <2>2. Tour(R, c, r + 1, b, T, B) /\ Apart(Q, at, m)
    BY <2>1, <1>9, TourGoesOn
  <2> QED
    BY <2>2, Zenon DEF Apart
<1>13. Tour(R, d, q, block, T, B) /\ (Covers(R, c, r + 1, b, T, n) => Covers(R, d, q, block, T, n))
  BY <1>7, <1>11, <1>12, SamePlaces
<1>14. /\ Single' /\ Input' = Input
       /\ inf'[1] = IF Program = "stride" THEN Seek(Past(f, s), pos) ELSE Past(f, s)
       /\ outf'[1] = IF Program = "stride" THEN Write(g, s) ELSE Seek(Write(g, s), pos)
  BY SMTT(30), <1>3, <1>4, <1>8, StridesOnKeeps
<1>15. /\ args' = args /\ pc' = "copy" /\ Program' = Program /\ BlockSize' = BlockSize
       /\ local'.pos = pos /\ local'.block = block /\ local'.written = w + m
  <2>1. /\ args' = args /\ pc' = "copy" /\ command' = command
        /\ local' = [local EXCEPT !.written = @ + Len(s), !.pos = pos,
                              !.block = IF wraps THEN CutShort(@, pos) ELSE @]
    BY DEF StridesOn
  <2>2. local \in LocalTypes
    BY DEF Single
  <2>3. local'.pos = pos /\ local'.written = w + m
    BY <1>2, <1>4, <2>1, <2>2 DEF LocalTypes
  <2>4. local'.block = IF wraps THEN CutShort(b, pos) ELSE b
    BY <1>1, <2>1, <2>2 DEF LocalTypes
  <2>5. local'.block = block
    BY <1>1, <1>5, <2>4 DEF CutShort
  <2> QED
    BY <2>1, <2>3, <2>5 DEF Program, BlockSize
<1>16. Past(f, s) \in InFiles /\ Past(f, s).pos = f.pos + m
  BY ZenonT(30), <1>4, PastIs
<1>17. Write(g, s) \in OutFiles /\ Write(g, s).pos = g.pos + m
  BY ZenonT(30), <1>4, WriteIs
<1>18. CASE Program = "stride"
  <2>1. f.pos = at /\ Gathered(Q, g, Input) /\ Covers(Q, c, r, b, T, n)
    BY <1>1, <1>3, <1>18 DEF Strides
  <2>2. inf'[1].pos = pos
    BY <1>8, <1>14, <1>16, <1>18, SeekIs
  <2>3. Gathered(R, outf'[1], Input)
    <3>1. Input \in Seq(Bytes)
      BY InputData
    <3>2. \A i \in 1 .. Len(s) : s[i] = Input[at + i] /\ at + i \in 1 .. Len(Input)
      BY <1>1, <1>4, <2>1
    <3>3. Gathered(Onward(Q, at, Len(s)), Write(g, s), Input)
      BY <1>4, <2>1, <3>1, <3>2, GatheredMore
    <3> QED
      BY <1>4, <1>9, <1>14, <1>18, <3>3
  <2>4. Covers(R, d, q, block, T, n)
    <3>1. \A k \in 0 .. b - 1 : at + k < n => k < m
      BY <1>4, <2>1 DEF Least
    <3>2. Covers(R, c, r + 1, b, T, n)
      BY <1>1, <1>9, <2>1, <3>1, CoversMore
    <3> QED
      BY <1>13, <3>2
  <2>5. Strides(d, q, R)'
    <3>1. Gathered(R, outf'[1], Input')
      BY <1>14, <2>3
    <3> QED
      BY <1>1, <1>7, <1>11, <1>13, <1>14, <1>15, <1>18, <2>2, <2>4, <3>1 DEF Strides
  <2> QED
    BY <1>11, <2>5
<1>19. CASE Program = "ostride"
  <2>1. /\ f.pos = w /\ g.pos = at /\ Scattered(Q, g, Input)
        /\ w = n \/ Covers(Q, c, r, b, T, n)
    BY <1>1, <1>3, <1>19 DEF Strides
  <2>2. inf'[1].pos = w + m
    BY <1>14, <1>16, <1>19, <2>1
  <2>3. outf'[1].pos = pos /\ outf'[1].data = Write(g, s).data
    BY <1>8, <1>14, <1>17, <1>19, SeekIs
  <2>4. Scattered(R, outf'[1], Input)
    <3>1. Input \in Seq(Bytes)
      BY InputData
    <3>2. \A i \in 1 .. Len(s) : s[i] = Input[Len(Q) + i] /\ Len(Q) + i \in 1 .. Len(Input)
      BY <1>1, <1>4, <2>1
    <3>4. \A i \in 1 .. Len(Q) : \A k \in 1 .. Len(s) : Q[i] # g.pos + (k - 1)
      BY <1>4, <1>12, <2>1
    <3>3. Scattered(Onward(Q, g.pos, Len(s)), Write(g, s), Input)
      BY <1>4, <2>1, <3>1, <3>2, <3>4, ScatteredMore
    <3>5. Scattered(R, Write(g, s), Input)
      BY <1>4, <1>9, <2>1, <3>3
    <3> QED
      BY <2>3, <3>5 DEF Scattered
  <2>5. w + m = n \/ Covers(R, d, q, block, T, n)
    <3>1. CASE m = b
      <4>1. \A k \in 0 .. b - 1 : at + k < n => k < m
        BY <3>1
      <4>2. w # n
        BY <1>4, <2>1
      <4>3. Covers(R, c, r + 1, b, T, n)
        BY <1>1, <1>9, <2>1, <4>1, <4>2, CoversMore
      <4> QED
        BY <1>13, <4>3
    <3>2. CASE m # b
      BY <1>4, <2>1, <3>2 DEF Least
    <3> QED
      BY <3>1, <3>2
  <2>6. Strides(d, q, R)'
    <3>1. Scattered(R, outf'[1], Input')
      BY <1>14, <2>4
    <3> QED
      BY <1>1, <1>7, <1>11, <1>13, <1>14, <1>15, <1>19, <2>2, <2>3, <2>5, <3>1 DEF Strides
  <2> QED
    BY <1>11, <2>6
<1> QED
  BY <1>18, <1>19


LEMMA StridedKeeps ==
    ASSUME Usable, Single, StridedOK, Strided
    PROVE  Single' /\ StridedOK' /\ pc' \in {"copy", "done"} /\ UNCHANGED <<command, args>>
<1>1. /\ Program \in {"stride", "ostride"} /\ pc = "copy"
      /\ lengths' = lengths /\ command' = command /\ args' = args
  BY DEF Strided, Running
<1>2. Program' = Program /\ BlockSize' = BlockSize /\ Input' = Input
  BY <1>1 DEF Program, BlockSize, Input
<1>30. PICK s, further, wraps, pos :
          /\ s = IF local.written >= local.size THEN <<>> ELSE BytesRead(inf[1], local.block)
          /\ further = local.pos + args.stride
          /\ wraps = (further >= local.size)
          /\ pos = IF wraps THEN (further % args.stride) + local.block ELSE further
  OBVIOUS
<1>31. wraps \in BOOLEAN
  BY <1>30
<1>32. IF s = <<>> THEN Finish
       ELSE /\ IF Program = "stride" THEN Copy(Seek(Past(inf[1], s), pos), Write(outf[1], s))
               ELSE Copy(Past(inf[1], s), Seek(Write(outf[1], s), pos))
            /\ local' = [local EXCEPT !.written = @ + Len(s), !.pos = pos,
                                      !.block = IF wraps THEN CutShort(@, pos) ELSE @]
            /\ Continue
  BY <1>30, <1>31 DEF Strided
<1>3. /\ s = IF local.written >= local.size THEN <<>> ELSE BytesRead(inf[1], local.block)
      /\ further = local.pos + args.stride
      /\ wraps <=> further >= local.size
      /\ pos = IF wraps THEN (further % args.stride) + local.block ELSE further
      /\ IF s = <<>> THEN Finish
         ELSE /\ IF Program = "stride" THEN Copy(Seek(Past(inf[1], s), pos), Write(outf[1], s))
                 ELSE Copy(Past(inf[1], s), Seek(Write(outf[1], s), pos))
              /\ local' = [local EXCEPT !.written = @ + Len(s), !.pos = pos,
                                        !.block = IF wraps THEN CutShort(@, pos) ELSE @]
              /\ Continue
  BY <1>30, <1>31, <1>32
<1>4. PICK f \in InFiles : f = inf[1]
  BY InputData
<1>5. CASE s = << >>
  <2>1. Finish
    BY <1>3, <1>5
  <2>2. inf' = inf /\ outf' = outf /\ local' = local /\ pc' = "done"
    BY <2>1 DEF Finish
  <2>3. Single'
    BY <1>1, <1>2, <2>2 DEF Single
  <2>4. ASSUME InStrides PROVE \E c, r \in Nat : \E Q \in Seq(Nat) : Strides(c, r, Q)'
    <3>1. PICK c \in Nat, r \in Nat, Q \in Seq(Nat) : Strides(c, r, Q)
      BY <2>4 DEF StridedOK
    <3>2. local.size = Len(Input)
      BY <2>4 DEF StridedOK
    <3>3. Len(Q) = Len(Input)
      BY <1>1, <1>3, <1>5, <2>4, <3>1, <3>2, StridesEnd
    <3>4. Strides(c, r, Q)'
      BY <1>1, <1>2, <2>2, <3>1, <3>3 DEF Strides
    <3> QED
      BY <3>4
  <2>5. StridedOK'
    BY <1>1, <1>2, <2>2, <2>4 DEF StridedOK, InStrides
  <2> QED
    BY <1>1, <2>2, <2>3, <2>5
<1>6. CASE s # << >>
  <2>1. s = BytesRead(inf[1], local.block)
    BY <1>3, <1>6
  <2>2. local \in LocalTypes /\ args.stride \in Nat \ {0}
    BY DEF Single, Usable, ArgTypes
  <2>3. PICK b \in Nat : b = local.block
    <3>1. PICK e \in Int : e = local.block
      BY <2>2 DEF LocalTypes
    <3>2. ~(e <= 0)
      BY <1>4, <1>6, <2>1, <3>1, ReadNone
    <3> QED
      BY <3>1, <3>2
  <2>4. s \in Seq(Bytes)
    BY <1>4, <2>1, <2>3, ReadIs
  <2>5. pos \in Nat
    <3>1. PICK T \in Nat \ {0}, p \in Nat : T = args.stride /\ p = local.pos
      BY <2>2 DEF LocalTypes
    <3>2. PICK u \in Nat : u = p + T
      OBVIOUS
    <3>3. PICK y \in Nat : y = u % T
      BY Remainders
    <3> QED
      BY <1>3, <2>3, <3>1, <3>2, <3>3
  <2>6. StridesOn(s, pos, wraps)
    BY <1>1, <1>3, <1>6 DEF StridesOn, Continue
  <2>7. Single'
    BY <1>31, <2>4, <2>5, <2>6, StridesOnKeeps
  <2>8. pc' = pc /\ local'.size = local.size
    BY <2>2, <2>6 DEF StridesOn, LocalTypes
  <2>9. ASSUME InStrides PROVE \E c, r \in Nat : \E Q \in Seq(Nat) : Strides(c, r, Q)'
    <3>1. PICK c \in Nat, r \in Nat, Q \in Seq(Nat) : Strides(c, r, Q)
      BY <2>9 DEF StridedOK
    <3>2. local.size = Len(Input)
      BY <2>9 DEF StridedOK
    <3> QED
      BY <1>1, <1>3, <1>31, <1>6, <2>1, <2>6, <2>9, <3>1, <3>2, StridesGoOn
  <2>10. StridedOK'
    BY <1>1, <1>2, <2>8, <2>9 DEF StridedOK, InStrides
  <2> QED
    BY <1>1, <2>7, <2>8, <2>10
<1> QED
  BY <1>5, <1>6


LEMMA LessIsBefore ==
    ASSUME Usable, NEW p \in Nat, NEW q \in Nat, Less(p, q, args.stride, BlockSize)
    PROVE  Before(p, q)
<1>1. PICK x, y : x = Key(p) /\ y = Key(q)
  OBVIOUS
<1>2. /\ x[1] = (p % args.stride) \div BlockSize /\ x[2] = p \div args.stride /\ x[3] = p % args.stride
      /\ y[1] = (q % args.stride) \div BlockSize /\ y[2] = q \div args.stride /\ y[3] = q % args.stride
  BY <1>1 DEF Key
<1>3. /\ 1 .. 1 - 1 = {} /\ 1 .. 2 - 1 = {1} /\ 1 .. 3 - 1 = {1, 2} /\ 1 .. 3 = {1, 2, 3}
  OBVIOUS
<1>4. \/ x[1] < y[1]
      \/ x[1] = y[1] /\ x[2] < y[2]
      \/ x[1] = y[1] /\ x[2] = y[2] /\ x[3] < y[3]
  BY <1>2 DEF Less
<1>5. \E i \in 1 .. 3 : x[i] < y[i] /\ \A j \in 1 .. i - 1 : x[j] = y[j]
  <2>1. CASE x[1] < y[1]
    BY <1>3, <2>1
  <2>2. CASE x[1] = y[1] /\ x[2] < y[2]
    BY <1>3, <2>2
  <2>3. CASE x[1] = y[1] /\ x[2] = y[2] /\ x[3] < y[3]
    BY <1>3, <2>3
  <2> QED
    BY <1>4, <2>1, <2>2, <2>3
<1> QED
  BY <1>1, <1>5 DEF Before

LEMMA TourIsStrict ==
    ASSUME Usable, NEW Q \in Seq(Nat), NEW c, NEW r, NEW b,
           Tour(Q, c, r, b, args.stride, BlockSize)
    PROVE  Strictly(Q)
<1>1. ASSUME NEW j \in 1 .. Len(Q) - 1 PROVE Before(Q[j], Q[j + 1])
  <2>1. j + 1 \in 1 .. Len(Q) /\ j \in 1 .. (j + 1) - 1 /\ j \in 1 .. Len(Q)
    OBVIOUS
  <2>2. Less(Q[j], Q[j + 1], args.stride, BlockSize)
    BY <2>1 DEF Tour
  <2>3. Q[j] \in Nat /\ Q[j + 1] \in Nat
    BY <2>1
  <2> QED
    BY <2>2, <2>3, LessIsBefore
<1> QED
  BY <1>1 DEF Strictly

\* Each byte is where its place says, and nowhere else.
LEMMA ShufflesAll ==
    ASSUME Usable, Single, StridedOK
    PROVE  ShufflesInput
<1> SUFFICES ASSUME Done({"stride", "ostride"}), BlockSize <= args.stride, args.size < 0
             PROVE  LET n == Len(Input)
                        place(k) == CHOOSE p \in DOMAIN Output : Output[p] = ByteOf(1, k)
                    IN /\ \A k \in 1..n : Cardinality({p \in DOMAIN Output : Output[p] = ByteOf(1, k)}) = 1
                       /\ IF Program = "stride" THEN Strictly([j \in 1..n |-> Output[j][2] - 1])
                                                ELSE Strictly([k \in 1..n |-> place(k) - 1])
  BY DEF ShufflesInput
<1>1. PICK c \in Nat, r \in Nat, Q \in Seq(Nat) : Strides(c, r, Q)
  BY DEF StridedOK, InStrides
<1>2. PICK n \in Nat, g \in OutFiles, d \in Seq(Bytes) :
              n = Len(Input) /\ n = Len(Q) /\ g = outf[1] /\ d = g.data /\ d = Output
  <2>1. Len(Q) = Len(Input)
    BY <1>1 DEF Strides, Done
  <2> QED
    BY <2>1, InputData DEF Output, OutFiles
<1>3. Tour(Q, c, r, local.block, args.stride, BlockSize)
  BY <1>1 DEF Strides
<1>4. Strictly(Q)
  BY <1>3, TourIsStrict
<1>5. Different(Q)
  <2>1. args.stride \in Nat \ {0}
    BY DEF Usable, ArgTypes
  <2> QED
    BY <1>3, <2>1, BlockSizeIs, TourDiffers
<1>6. \A i \in 1 .. n : Input[i] = ByteOf(1, i)
  BY <1>2, InputData DEF Input
<1>7. CASE Program = "stride"
  <2>1. Len(d) = n /\ \A i \in 1 .. n : Q[i] < n /\ d[i] = Input[Q[i] + 1]
    BY <1>1, <1>2, <1>7 DEF Strides, Gathered
  <2>2. \A i \in 1 .. n : Q[i] \in Nat /\ d[i] = ByteOf(1, Q[i] + 1)
    <3>1. ASSUME NEW i \in 1 .. n PROVE Q[i] \in Nat /\ d[i] = ByteOf(1, Q[i] + 1)
      <4>1. PICK q \in Nat : q = Q[i] /\ q + 1 \in 1 .. n
        <5>1. Q[i] \in Nat /\ Q[i] < n
          BY <1>2, <2>1
        <5> QED
          BY <5>1
      <4>2. d[i] = Input[q + 1] /\ Input[q + 1] = ByteOf(1, q + 1)
        BY <1>6, <2>1, <4>1
      <4> QED
        BY <4>1, <4>2
    <3> QED
      BY <3>1
  <2>3. ASSUME NEW k \in 1 .. n
        PROVE  Cardinality({p \in DOMAIN d : d[p] = ByteOf(1, k)}) = 1
    <3>1. PICK i \in 1 .. n : Q[i] = k - 1
      <4>1. \A p \in 0 .. n - 1 : \E i \in 1 .. Len(Q) : Q[i] = p
        BY <1>2, <1>5, <2>1, DifferentPlaces
      <4>2. k - 1 \in 0 .. n - 1
        OBVIOUS
      <4> QED
        BY <1>2, <4>1, <4>2
    <3>2. \A p \in 1 .. n : d[p] = ByteOf(1, k) <=> p = i
      <4>1. \A p \in 1 .. n : d[p] = ByteOf(1, k) <=> Q[p] + 1 = k
        BY <2>2 DEF ByteOf
      <4>2. \A p \in 1 .. n : Q[p] + 1 = k <=> Q[p] = Q[i]
        BY SMTT(30), <2>2, <3>1
      <4> QED
        BY <1>2, <1>5, <4>1, <4>2 DEF Different
    <3>3. {p \in DOMAIN d : d[p] = ByteOf(1, k)} = {i}
      BY <2>1, <3>2
    <3> QED
      BY <3>3, FS_Singleton
  <2>4. [j \in 1 .. n |-> d[j][2] - 1] = Q
    <3>1. ASSUME NEW j \in 1 .. n PROVE d[j][2] - 1 = Q[j]
      <4>1. PICK q \in Nat : q = Q[j] /\ d[j] = <<1, q + 1>>
        BY <2>2 DEF ByteOf
      <4> QED
        BY <4>1
    <3> QED
      BY <1>2, <3>1
  <2> QED
    BY <1>2, <1>4, <1>7, <2>3, <2>4
<1>8. CASE Program # "stride"
  <2>1. /\ \A i \in 1 .. n : Q[i] + 1 \in 1 .. Len(d) /\ d[Q[i] + 1] = Input[i]
        /\ \A p \in 1 .. Len(d) : d[p] = Hole \/ \E i \in 1 .. n : Q[i] + 1 = p
    <3>1. Program = "ostride"
      BY <1>8 DEF Done
    <3> QED
      BY <1>1, <1>2, <3>1 DEF Strides, Scattered
  <2>2. ASSUME NEW k \in 1 .. n, NEW p \in DOMAIN d PROVE d[p] = ByteOf(1, k) <=> p = Q[k] + 1
    <3>1. ASSUME d[p] = ByteOf(1, k) PROVE p = Q[k] + 1
      <4>1. d[p] # Hole
        BY <3>1 DEF ByteOf, Hole
      <4>2. p \in 1 .. Len(d)
        BY <1>2
      <4>3. PICK i \in 1 .. n : Q[i] + 1 = p
        BY <2>1, <4>1, <4>2
      <4>4. ByteOf(1, i) = ByteOf(1, k)
        BY <1>6, <2>1, <3>1, <4>3
      <4>5. i = k
        BY <4>4 DEF ByteOf
      <4> QED
        BY <4>3, <4>5
    <3>2. d[Q[k] + 1] = ByteOf(1, k)
      BY <1>6, <2>1
    <3> QED
      BY <3>1, <3>2
  <2>3. ASSUME NEW k \in 1 .. n
        PROVE  /\ Cardinality({p \in DOMAIN d : d[p] = ByteOf(1, k)}) = 1
               /\ (CHOOSE p \in DOMAIN Output : Output[p] = ByteOf(1, k)) - 1 = Q[k]
    <3>1. PICK q \in DOMAIN d : q = Q[k] + 1 /\ Q[k] \in Nat
      BY <1>2, <2>1
    <3>2. \A p \in DOMAIN d : d[p] = ByteOf(1, k) <=> p = q
      BY <2>2, <3>1
    <3>3. {p \in DOMAIN d : d[p] = ByteOf(1, k)} = {q}
      BY <3>2
    <3>4. PICK e : e = CHOOSE p \in DOMAIN Output : Output[p] = ByteOf(1, k)
      OBVIOUS
    <3>9. q \in DOMAIN Output /\ \A p \in DOMAIN Output : Output[p] = ByteOf(1, k) <=> p = q
      BY <1>2, <3>2
    <3>5. e = q
      BY <3>4, <3>9
    <3>6. Cardinality({q}) = 1
      BY FS_Singleton
    <3>7. e - 1 = Q[k]
      BY <3>1, <3>5
    <3>8. Cardinality({p \in DOMAIN d : d[p] = ByteOf(1, k)}) = 1
      BY <3>3, <3>6
    <3> QED
      BY <3>4, <3>7, <3>8
  <2>4. [k \in 1 .. n |-> (CHOOSE p \in DOMAIN Output : Output[p] = ByteOf(1, k)) - 1] = Q
    <3>1. PICK F : F = [k \in 1 .. n |-> (CHOOSE p \in DOMAIN Output : Output[p] = ByteOf(1, k)) - 1]
      OBVIOUS
    <3>2. \A k \in 1 .. n : F[k] = Q[k]
      BY <2>3, <3>1
    <3>3. F = [k \in 1 .. n |-> F[k]]
      BY <3>1
    <3>4. Q = [k \in 1 .. n |-> Q[k]]
      BY <1>2
    <3> QED
      BY <3>1, <3>2, <3>3, <3>4
  <2>5. \A k \in 1 .. n : Cardinality({p \in DOMAIN Output : Output[p] = ByteOf(1, k)}) = 1
    BY <1>2, <2>3
  <2>6. Strictly([k \in 1 .. n |-> (CHOOSE p \in DOMAIN Output : Output[p] = ByteOf(1, k)) - 1])
    BY <1>4, <2>4
  <2> QED
    BY <1>2, <1>8, <2>5, <2>6
<1> QED
  BY <1>7, <1>8


-----------------------------------------------------------------------------
(* Opening.                                                                *)

\* A program of one input and one output begins with them.
Begun(f) ==
    /\ f \in InFiles /\ f.pos = 0 /\ f.data = Input' /\ inf'[1] = f
    /\ outf'[1] = OutputFile /\ local' = Locals(f) /\ pc' = "copy" /\ ~CannotOpen(f)
    /\ args' = args /\ command' = command /\ Program' = Program /\ BlockSize' = BlockSize
    /\ lengths'[1] \in Nat /\ Input' \in Seq(Bytes)

LEMMA OpensOne ==
    ASSUME Usable, Program # "gather", Open, pc' = "copy"
    PROVE  Single' /\ \E f : Begun(f)
<1>1. args.inputs = 1 /\ args.outputs = 1 /\ args \in ArgTypes
  BY DEF Usable
<1>2. PICK seekable \in BOOLEAN :
              inf' = [n \in 1 .. args.inputs |-> InputFile(n, lengths'[n], seekable)]
  BY DEF Open
<1>3. /\ lengths' \in [1 .. args.inputs -> Lengths]
      /\ outf' = [n \in 1 .. args.outputs |-> OutputFile]
      /\ local' = Locals(inf'[1]) /\ ~CannotOpen(inf'[1]) /\ args' = args /\ command' = command
  BY DEF Open
<1>4a. PICK one \in Nat : one = 1
  OBVIOUS
<1>4b. one \in 1 .. one /\ \A n \in 1 .. one : n = one
  BY <1>4a
<1>4. PICK D : one = 1 /\ D = 1 .. one /\ one \in D /\ \A n \in D : n = one
  BY <1>4a, <1>4b, Zenon
<1>5. lengths' \in [D -> Nat] /\ lengths'[one] \in Nat
  BY <1>1, <1>3, <1>4, CatAssumption
<1>6. inf' = [n \in D |-> InputFile(n, lengths'[n], seekable)] /\ outf' = [n \in D |-> OutputFile]
  BY <1>1, <1>2, <1>3, <1>4
<1>7. PICK f : f = InputFile(one, lengths'[one], seekable)
  OBVIOUS
<1>8. f \in InFiles /\ f.pos = 0 /\ f.data = [k \in 1 .. lengths'[one] |-> ByteOf(one, k)]
  BY <1>5, <1>7, InputIs
<1>9. f.data = Input'
  BY <1>4, <1>8 DEF Input
<1>10. inf'[one] = f /\ inf' \in [D -> InFiles]
  BY <1>4, <1>6, <1>7, <1>8
<1>11. OutputFile \in OutFiles
  BY DEF OutputFile, OutFiles
<1>12. outf'[one] = OutputFile /\ outf' \in [D -> OutFiles]
  BY <1>4, <1>6, <1>11
<1>13. Program' = Program /\ BlockSize' = BlockSize
  BY <1>3 DEF Program, BlockSize
<1>14. Input' \in Seq(Bytes)
  BY <1>8, <1>9 DEF InFiles
<1>15. local' = Locals(f) /\ ~CannotOpen(f)
  BY <1>3, <1>4, <1>10
<1>16. Locals(f) \in LocalTypes
  <2>1. args.size \in Int /\ Len(f.data) \in Nat /\ BlockSize \in Nat \ {0}
    <3>1. args.size \in Int
      BY <1>1 DEF ArgTypes
    <3>2. Len(f.data) \in Nat
      BY <1>9, <1>14
    <3> QED
      BY <3>1, <3>2, BlockSizeIs
  <2>2. PICK z \in Int : z = Size(f)
    <3>1. FileSize(f) \in Int
      BY <2>1 DEF FileSize
    <3> QED
      BY <2>1, <3>1 DEF Size
  <2>3. PICK bs \in Seq(Nat) : bs = IF Program = "reorder" /\ z >= 0
                                    THEN [b \in 1 .. z \div BlockSize |-> b - 1] ELSE << >>
    <3>1. PICK m \in Nat : z >= 0 => m = z \div BlockSize
      <4>1. CASE z >= 0
        <5>1. z \in Nat
          BY <4>1
        <5> QED
          BY <2>1, <5>1, Remainders
      <4>2. CASE ~(z >= 0)
        BY <4>2
      <4> QED
        BY <4>1, <4>2
    <3>2. [b \in 1 .. m |-> b - 1] \in [1 .. m -> Nat]
      OBVIOUS
    <3>3. [b \in 1 .. m |-> b - 1] \in Seq(Nat) /\ << >> \in Seq(Nat)
      BY <3>2
    <3>4. CASE Program = "reorder" /\ z >= 0
      BY <3>1, <3>3, <3>4
    <3>5. CASE ~(Program = "reorder" /\ z >= 0)
      BY <3>3, <3>5
    <3> QED
      BY <3>4, <3>5
  <2>4. PICK y \in Int : y = IF Sized THEN z ELSE args.size
    BY <2>1
  <2>5. Locals(f) = [size |-> y, pos |-> 0, written |-> 0,
                     block |-> BlockSize, ini |-> -1, outi |-> 0, blockpos |-> bs]
    BY <2>2, <2>3, <2>4 DEF Locals
  <2> QED
    BY <2>1, <2>5 DEF LocalTypes
<1>17. Single'
  BY <1>4, <1>5, <1>9, <1>10, <1>12, <1>15, <1>16 DEF Single
<1> QED
  BY <1>3, <1>4, <1>5, <1>8, <1>9, <1>10, <1>12, <1>13, <1>14, <1>15, <1>17 DEF Begun

LEMMA ForwardBegins ==
    ASSUME Usable, NEW f, Begun(f), Program \in {"cat", "block", "randblock"}
    PROVE  ForwardOK'
<1>1. ~Sized
  BY DEF Sized
<1>2. local'.size = args.size /\ args.size \in Int
  BY <1>1 DEF Begun, Locals, Usable, ArgTypes
<1>3. outf'[1].pos = 0 /\ outf'[1].data = << >> /\ Len(<< >>) = 0
  BY DEF Begun, OutputFile
<1>4. inf'[1].pos = 0 /\ Len(Input') \in Nat /\ args' = args /\ pc' = "copy"
  BY DEF Begun
<1> QED
  BY <1>2, <1>3, <1>4 DEF ForwardOK

\* The size of a program that needs one.
LEMMA SizeIs ==
    ASSUME Usable, NEW f, Begun(f), Sized
    PROVE  /\ local'.size = Size(f) /\ Size(f) \in Nat
           /\ Size(f) = IF args.size < 0 \/ Program = "ostride" THEN Len(Input') ELSE args.size
<1>1. local'.size = Size(f) /\ ~(Size(f) < 0) /\ Len(f.data) = Len(Input') /\ Len(Input') \in Nat
  BY DEF Begun, Locals, CannotOpen
<1>2. args.size \in Nat \cup {-1}
  BY DEF Usable, ArgTypes
<1> QED
  BY <1>1, <1>2 DEF Size, FileSize

LEMMA BackwardBegins ==
    ASSUME Usable, NEW f, Begun(f), Program = "reverse"
    PROVE  BackwardOK'
<1>1. Sized
  BY DEF Sized
<1>2. local'.size \in Nat /\ local'.size = IF args.size < 0 THEN Len(Input') ELSE args.size
  BY <1>1, SizeIs
<1>3. outf'[1].pos = 0 /\ outf'[1].data = << >> /\ Len(<< >>) = 0
  BY DEF Begun, OutputFile
<1>4. Len(Input') \in Nat /\ args' = args /\ pc' = "copy"
  BY DEF Begun
<1> QED
  BY <1>2, <1>3, <1>4 DEF BackwardOK, GoesBack

LEMMA ReorderBegins ==
    ASSUME Usable, NEW f, Begun(f), Program = "reorder"
    PROVE  ReorderOK'
<1>1. Sized
  BY DEF Sized
<1>2. PICK z \in Nat, B \in Nat \ {0} : z = local'.size /\ z = Size(f) /\ B = BlockSize
  BY <1>1, SizeIs, BlockSizeIs
<1>3. PICK q \in Nat, m \in Nat : z \div B = q /\ z % B = m /\ m < B /\ z = q * B + m
                                  /\ q * B <= z /\ z < (q + 1) * B
  BY Remainders
<1>4. z = q * B
  <2>1. z % B = 0
    BY <1>2, <1>3 DEF Begun, CannotOpen
  <2>2. PICK u \in Nat : u = q * B
    OBVIOUS
  <2> QED
    BY <1>3, <2>1, <2>2
<1>5. local'.blockpos = [b \in 1 .. q |-> b - 1]
  <2>1. local'.blockpos = IF Program = "reorder" /\ Size(f) >= 0
                          THEN [b \in 1 .. Size(f) \div BlockSize |-> b - 1] ELSE << >>
    BY DEF Begun, Locals
  <2>2. Size(f) >= 0 /\ Size(f) \div BlockSize = q
    BY <1>2, <1>3
  <2> QED
    BY <2>1, <2>2
<1>6. Len(local'.blockpos) = q /\ \A j \in 1 .. q : local'.blockpos[j] = j - 1
  BY <1>5
<1>7. Left' = 0 .. q - 1
  <2>1. Left' = {local'.blockpos[j] : j \in 1 .. q}
    BY <1>6 DEF Left
  <2>2. \A x \in 0 .. q - 1 : x + 1 \in 1 .. q /\ x = (x + 1) - 1
    OBVIOUS
  <2>3. \A x \in 0 .. q - 1 : \E j \in 1 .. q : x = local'.blockpos[j]
    BY <1>6, <2>2
  <2>4. \A j \in 1 .. q : local'.blockpos[j] \in 0 .. q - 1
    BY <1>6
  <2> QED
    BY <2>1, <2>3, <2>4
<1>8. outf'[1].data = << >> /\ Len(<< >>) = 0 /\ q * B \in Nat
  BY DEF Begun, OutputFile
<1>9. Placed(outf[1].data, Left, q, BlockSize)'
  BY <1>2, <1>7, <1>8 DEF Placed, Begun
<1>10. local'.size = q * BlockSize' /\ pc' = "copy"
  BY <1>2, <1>4 DEF Begun
<1> QED
  BY <1>7, <1>9, <1>10 DEF ReorderOK

LEMMA StridedBegins ==
    ASSUME Usable, NEW f, Begun(f), Program \in {"stride", "ostride"}
    PROVE  StridedOK'
<1>1. Sized
  BY DEF Sized
<1>2. InStrides' => args.size < 0 /\ BlockSize <= args.stride
  BY DEF InStrides, Begun
<1>3. InStrides' => local'.size = Len(Input')
  BY <1>1, <1>2, SizeIs
<1>4. ASSUME InStrides' PROVE Strides(0, 0, << >>)'
  <2>1. PICK T \in Nat \ {0}, B \in Nat \ {0}, n \in Nat :
                T = args.stride /\ B = BlockSize /\ n = Len(Input') /\ B <= T
    BY <1>2, <1>4, BlockSizeIs DEF Usable, ArgTypes, Begun
  <2>2. /\ local'.block = B /\ local'.pos = 0 /\ local'.written = 0
        /\ outf'[1].pos = 0 /\ outf'[1].data = << >> /\ inf'[1].pos = 0
    BY <2>1 DEF Begun, Locals, OutputFile
  <2>3. Len(<< >>) = 0 /\ 0 * T + 0 = 0 /\ 0 * B = 0 /\ 0 \in Nat
    OBVIOUS
  <2>4. AtBlock(0, 0, B, T, B, n)
    BY <2>1, <2>3 DEF AtBlock
  <2>5. Tour(<< >>, 0, 0, B, T, B)
    BY <2>3 DEF Tour
  <2>6. Covers(<< >>, 0, 0, B, T, n)
    <3>1. ASSUME NEW p \in 0 .. n - 1 PROVE ~Visited(p, 0, 0, B, T)
      <4>1. p \in Nat
        OBVIOUS
      <4>2. PICK y \in Nat, q \in Nat : y = p % T /\ q = p \div T
        BY <4>1, Remainders
      <4> QED
        BY <4>2 DEF Visited
    <3> QED
      BY <3>1 DEF Covers
  <2>7. Gathered(<< >>, outf'[1], Input')
    BY <2>2, <2>3 DEF Gathered
  <2>8. Scattered(<< >>, outf'[1], Input')
    BY <2>1, <2>2, <2>3 DEF Scattered
  <2>9. pc' = "copy" /\ args' = args /\ BlockSize' = BlockSize /\ Program' = Program
    BY DEF Begun
  <2> QED
    BY <2>1, <2>2, <2>3, <2>4, <2>5, <2>6, <2>7, <2>8, <2>9 DEF Strides
<1>5. << >> \in Seq(Nat) /\ 0 \in Nat
  OBVIOUS
<1> QED
  BY <1>3, <1>4, <1>5 DEF StridedOK


-----------------------------------------------------------------------------
(* Scattering and gathering.                                               *)

\* What the outputs have of what has been read: R[n] bytes of input n.
ReadAndWritten(D, R, N, M) ==
    /\ \A o \in 1 .. M : \A i \in 1 .. Len(D[o]) :
          \E n \in 1 .. N : \E k \in 1 .. R[n] : D[o][i] = ByteOf(n, k)
    /\ \A o \in 1 .. M : \A j \in 1 .. Len(D[o]) : \A i \in 1 .. j - 1 :
          D[o][i][1] = D[o][j][1] => D[o][i][2] < D[o][j][2]
    /\ \A o, p \in 1 .. M : \A i \in 1 .. Len(D[o]) : \A j \in 1 .. Len(D[p]) :
          o # p => D[o][i] # D[p][j]
    /\ \A n \in 1 .. N : \A k \in 1 .. R[n] :
          \E o \in 1 .. M : \E i \in 1 .. Len(D[o]) : D[o][i] = ByteOf(n, k)

\* The numbers behind the first a ones.
LEMMA Behind ==
    ASSUME NEW a \in Nat, NEW m \in Nat
    PROVE  /\ \A h \in 1 .. m : a + h \in 1 .. a + m /\ a + h > a
           /\ \A c \in 1 .. a + m : c <= a \/ \E h \in 1 .. m : c = a + h
<1>1. ASSUME NEW c \in 1 .. a + m, ~(c <= a) PROVE \E h \in 1 .. m : c = a + h
  <2>1. c - a \in 1 .. m /\ c = a + (c - a)
    BY <1>1
  <2> QED
    BY <2>1
<1> QED
  BY <1>1

LEMMA WrittenMore ==
    ASSUME NEW M \in Nat, NEW N \in Nat, NEW D \in [1 .. M -> Seq(Bytes)],
           NEW R \in [1 .. N -> Nat], ReadAndWritten(D, R, N, M),
           NEW q \in 1 .. M, NEW x \in 1 .. N, NEW m \in Nat, NEW w \in Seq(Bytes),
           NEW l \in Nat, l = Len(D[q]), Len(w) = l + m, NEW a \in Nat, a = R[x],
           \A i \in 1 .. l : w[i] = D[q][i], \A i \in 1 .. m : w[l + i] = ByteOf(x, a + i)
    PROVE  ReadAndWritten([D EXCEPT ![q] = w], [R EXCEPT ![x] = a + m], N, M)
<1>1. PICK E, S : E = [D EXCEPT ![q] = w] /\ S = [R EXCEPT ![x] = a + m]
  OBVIOUS
<1>2. /\ E[q] = w /\ \A o \in 1 .. M : o # q => E[o] = D[o]
      /\ S[x] = a + m /\ \A n \in 1 .. N : n # x => S[n] = R[n]
  BY <1>1
<1>3. l \in Nat /\ a \in Nat /\ R[x] = a /\ Len(D[q]) = l /\ Len(w) = l + m
  OBVIOUS
<1>4. \A n \in 1 .. N : R[n] \in Nat /\ R[n] <= S[n]
  <2>1. ASSUME NEW n \in 1 .. N PROVE R[n] \in Nat /\ R[n] <= S[n]
    <3>1. R[n] \in Nat
      OBVIOUS
    <3>2. CASE n = x
      <4>1. R[n] = a /\ S[n] = a + m /\ a <= a + m
        BY <1>2, <1>3, <3>2
      <4> QED
        BY <3>1, <4>1
    <3>3. CASE n # x
      <4>1. S[n] = R[n]
        BY <1>2, <3>3
      <4>2. R[n] <= R[n]
        BY <3>1
      <4> QED
        BY <3>1, <4>1, <4>2
    <3> QED
      BY <3>2, <3>3
  <2> QED
    BY <2>1
<1>5. /\ \A o \in 1 .. M : \A i \in 1 .. Len(D[o]) :
            \E n \in 1 .. N : \E k \in 1 .. R[n] : D[o][i] = ByteOf(n, k)
      /\ \A o \in 1 .. M : \A j \in 1 .. Len(D[o]) : \A i \in 1 .. j - 1 :
            D[o][i][1] = D[o][j][1] => D[o][i][2] < D[o][j][2]
      /\ \A o, p \in 1 .. M : \A i \in 1 .. Len(D[o]) : \A j \in 1 .. Len(D[p]) :
            o # p => D[o][i] # D[p][j]
      /\ \A n \in 1 .. N : \A k \in 1 .. R[n] :
            \E o \in 1 .. M : \E i \in 1 .. Len(D[o]) : D[o][i] = ByteOf(n, k)
  BY DEF ReadAndWritten
<1>6. ASSUME NEW o \in 1 .. M, NEW i \in 1 .. Len(E[o])
      PROVE  \/ i \in 1 .. Len(D[o]) /\ E[o][i] = D[o][i]
             \/ o = q /\ \E h \in 1 .. m : i = l + h /\ E[o][i] = ByteOf(x, a + h)
  <2>1. CASE o # q
    BY <1>2, <2>1
  <2>2. CASE o = q /\ i <= l
    <3>1. i \in 1 .. l
      BY <1>3, <2>2
    <3> QED
      BY <1>2, <1>3, <2>2, <3>1
  <2>3. CASE o = q /\ ~(i <= l)
    <3>1. i \in 1 .. l + m
      BY <1>2, <1>3, <2>3
    <3>2. PICK h \in 1 .. m : i = l + h
      <4>1. i - l \in 1 .. m /\ i = l + (i - l)
        BY <1>3, <2>3, <3>1
      <4> QED
        BY <4>1
    <3> QED
      BY <1>2, <2>3, <3>2
  <2> QED
    BY <2>1, <2>2, <2>3
<1>7. ASSUME NEW o \in 1 .. M, NEW i \in 1 .. Len(D[o])
      PROVE  \E n \in 1 .. N : \E k \in 1 .. R[n] : D[o][i] = <<n, k>>
  BY <1>5 DEF ByteOf
<1>8. ASSUME NEW o \in 1 .. M, NEW i \in 1 .. Len(E[o])
      PROVE  \E n \in 1 .. N : \E k \in 1 .. S[n] : E[o][i] = ByteOf(n, k)
  <2>1. CASE i \in 1 .. Len(D[o]) /\ E[o][i] = D[o][i]
    <3>0. PICK n \in 1 .. N : \E k \in 1 .. R[n] : D[o][i] = ByteOf(n, k)
      BY <1>5, <2>1
    <3>1. PICK k \in 1 .. R[n] : D[o][i] = ByteOf(n, k)
      BY <3>0
    <3>2. k \in 1 .. S[n]
      <4>1a. PICK y \in Nat : y = R[n]
        BY <1>4
      <4>1. PICK z : y = R[n] /\ z = S[n] /\ y <= z
        BY <1>4, <4>1a
      <4>2. z \in Nat
        BY <1>1, <1>3, <4>1
      <4> QED
        BY <4>1, <4>2
    <3> QED
      BY <2>1, <3>1, <3>2
  <2>2. CASE o = q /\ \E h \in 1 .. m : i = l + h /\ E[o][i] = ByteOf(x, a + h)
    <3>1. PICK h \in 1 .. m : E[o][i] = ByteOf(x, a + h)
      BY <2>2
    <3>2. a + h \in 1 .. a + m
      BY Behind
    <3>3. a + h \in 1 .. S[x]
      BY <1>2, <3>2
    <3> QED
      BY <3>1, <3>3
  <2> QED
    BY <1>6, <2>1, <2>2
<1>9. ASSUME NEW o \in 1 .. M, NEW j \in 1 .. Len(E[o]), NEW i \in 1 .. j - 1,
             E[o][i][1] = E[o][j][1]
      PROVE  E[o][i][2] < E[o][j][2]
  <2>1. E[o] \in Seq(Bytes) /\ Len(E[o]) \in Nat
    BY <1>1
  <2>2. i \in 1 .. Len(E[o])
    BY <2>1
  <2>3. CASE j \in 1 .. Len(D[o]) /\ E[o][j] = D[o][j]
    <3>1. i \in 1 .. Len(D[o])
      BY <2>3
    <3>2. E[o][i] = D[o][i]
      <4>1. CASE o = q /\ \E h \in 1 .. m : i = l + h /\ E[o][i] = ByteOf(x, a + h)
        BY <1>3, <3>1, <4>1
      <4> QED
        BY <1>6, <2>2, <4>1
    <3> QED
      BY <1>5, <1>9, <2>3, <3>2
  <2>4. CASE o = q /\ \E h \in 1 .. m : j = l + h /\ E[o][j] = ByteOf(x, a + h)
    <3>1. PICK h \in 1 .. m : j = l + h /\ E[o][j] = <<x, a + h>>
      BY <2>4 DEF ByteOf
    <3>2. CASE i \in 1 .. Len(D[o]) /\ E[o][i] = D[o][i]
      <4>0. PICK n \in 1 .. N : \E k \in 1 .. R[n] : D[o][i] = <<n, k>>
        BY <1>7, <3>2
      <4>1. PICK k \in 1 .. R[n] : D[o][i] = <<n, k>>
        BY <4>0
      <4>2. n = x
        BY <1>9, <3>1, <3>2, <4>1
      <4>3. k <= a /\ k \in Nat
        BY <1>3, <4>2
      <4>4. k < a + h
        BY <1>3, <4>3
      <4> QED
        BY <3>1, <3>2, <4>1, <4>4
    <3>3. CASE o = q /\ \E g \in 1 .. m : i = l + g /\ E[o][i] = ByteOf(x, a + g)
      <4>1. PICK g \in 1 .. m : i = l + g /\ E[o][i] = <<x, a + g>>
        BY <3>3 DEF ByteOf
      <4>2. a + g < a + h
        BY SMTT(30), <1>3, <3>1, <4>1
      <4> QED
        BY <3>1, <4>1, <4>2
    <3> QED
      BY <1>6, <2>2, <3>2, <3>3
  <2> QED
    BY <1>6, <2>3, <2>4
<1>10. ASSUME NEW o \in 1 .. M, NEW i \in 1 .. Len(D[o]), NEW h \in 1 .. m
       PROVE  D[o][i] # ByteOf(x, a + h)
  <2>0. PICK n \in 1 .. N : \E k \in 1 .. R[n] : D[o][i] = <<n, k>>
    BY <1>7
  <2>1. PICK k \in 1 .. R[n] : D[o][i] = <<n, k>>
    BY <2>0
  <2>2. n = x => k # a + h
    BY <1>3
  <2> QED
    BY <2>1, <2>2 DEF ByteOf
<1>11. ASSUME NEW o \in 1 .. M, NEW p \in 1 .. M, NEW i \in 1 .. Len(E[o]),
              NEW j \in 1 .. Len(E[p]), o # p
       PROVE  E[o][i] # E[p][j]
  <2>1. CASE i \in 1 .. Len(D[o]) /\ E[o][i] = D[o][i]
    <3>1. CASE j \in 1 .. Len(D[p]) /\ E[p][j] = D[p][j]
      <4>1. D[o][i] # D[p][j]
        BY <1>5, <1>11, <2>1, <3>1
      <4> QED
        BY <2>1, <3>1, <4>1
    <3>2. CASE p = q /\ \E h \in 1 .. m : j = l + h /\ E[p][j] = ByteOf(x, a + h)
      BY <1>10, <2>1, <3>2
    <3> QED
      BY <1>6, <3>1, <3>2
  <2>2. CASE o = q /\ \E h \in 1 .. m : i = l + h /\ E[o][i] = ByteOf(x, a + h)
    <3>1. j \in 1 .. Len(D[p]) /\ E[p][j] = D[p][j]
      BY <1>2, <1>11, <2>2
    <3> QED
      BY <1>10, <2>2, <3>1
  <2> QED
    BY <1>6, <2>1, <2>2
<1>12. ASSUME NEW n \in 1 .. N, NEW k \in 1 .. S[n]
       PROVE  \E o \in 1 .. M : \E i \in 1 .. Len(E[o]) : E[o][i] = ByteOf(n, k)
  <2>1. CASE k \in 1 .. R[n]
    <3>0. PICK o \in 1 .. M : \E i \in 1 .. Len(D[o]) : D[o][i] = ByteOf(n, k)
      BY <1>5, <2>1
    <3>1. PICK i \in 1 .. Len(D[o]) : D[o][i] = ByteOf(n, k)
      BY <3>0
    <3>2. i \in 1 .. Len(E[o]) /\ E[o][i] = D[o][i]
      <4>1. CASE o = q
        <5>1. i \in 1 .. l /\ i \in 1 .. l + m
          BY <1>3, <4>1
        <5> QED
          BY <1>2, <1>3, <4>1, <5>1
      <4>2. CASE o # q
        BY <1>2, <4>2
      <4> QED
        BY <4>1, <4>2
    <3> QED
      BY <3>1, <3>2
  <2>2. CASE k \notin 1 .. R[n]
    <3>1. n = x
      BY <1>2, <2>2
    <3>2. k \in 1 .. a + m /\ k > a
      BY <1>2, <1>3, <2>2, <3>1
    <3>5. PICK c \in Nat : c = k /\ c \in 1 .. a + m /\ c > a
      BY <3>2
    <3>3. PICK h \in 1 .. m : c = a + h
      <4>1. ~(c <= a)
        BY <3>5
      <4> QED
        BY <3>5, <4>1, Behind
    <3>6. l + h \in 1 .. l + m
      BY <1>3
    <3>7. w[l + h] = ByteOf(x, a + h)
      OBVIOUS
    <3>4. l + h \in 1 .. Len(E[q]) /\ E[q][l + h] = ByteOf(n, k)
      BY <1>2, <1>3, <3>1, <3>3, <3>5, <3>6, <3>7
    <3> QED
      BY <3>4
  <2> QED
    BY <2>1, <2>2
<1> QED
  BY <1>1, <1>8, <1>9, <1>11, <1>12 DEF ReadAndWritten


\* The open inputs fs, in the order they were given, of lengths ls.
AnInput(f, ls, N) ==
    /\ f.name \in 1 .. N /\ f.data = [k \in 1 .. ls[f.name] |-> ByteOf(f.name, k)]
    /\ f.pos <= ls[f.name]

Inputs(fs, ls, N) ==
    /\ fs \in Seq(InFiles)
    /\ \A i \in 1 .. Len(fs) : AnInput(fs[i], ls, N)
    /\ \A j \in 1 .. Len(fs) : \A i \in 1 .. j - 1 : fs[i].name < fs[j].name

\* The inputs up to the place ini have had one turn more than those behind it.
Turns(fs, ts, ini) ==
    /\ -1 <= ini /\ ini <= Len(fs) - 1
    /\ \E t \in Nat : \A i \in 1 .. Len(fs) :
          ts[fs[i].name] = IF i <= ini + 1 THEN t + 1 ELSE t

\* What has been read: all of the inputs that are closed.
HaveRead(fs, ls, R, N) ==
    /\ \A i \in 1 .. Len(fs) : R[fs[i].name] = fs[i].pos
    /\ \A n \in 1 .. N : R[n] <= ls[n] /\ (R[n] = ls[n] \/ \E i \in 1 .. Len(fs) : fs[i].name = n)

LEMMA NamesDiffer ==
    ASSUME NEW N \in Nat, NEW ls, NEW fs, Inputs(fs, ls, N),
           NEW i \in 1 .. Len(fs), NEW j \in 1 .. Len(fs), fs[i].name = fs[j].name
    PROVE  i = j
<1>1. \A k \in 1 .. Len(fs) : fs[k].name \in Nat
  <2>1. \A k \in 1 .. Len(fs) : fs[k].name \in 1 .. N
    BY DEF Inputs, AnInput
  <2>2. \A x \in 1 .. N : x \in Nat
    OBVIOUS
  <2> QED
    BY <2>1, <2>2
<1>2. i < j => i \in 1 .. j - 1
  OBVIOUS
<1>3. j < i => j \in 1 .. i - 1
  OBVIOUS
<1>4. ~(i < j)
  BY <1>1, <1>2 DEF Inputs
<1>5. ~(j < i)
  BY <1>1, <1>3 DEF Inputs
<1> QED
  BY <1>4, <1>5

\* The turn of the next input.
LEMMA NextTurn ==
    ASSUME NEW N \in Nat, NEW ls, NEW fs, Inputs(fs, ls, N), NEW ts \in [1 .. N -> Nat],
           NEW ini \in Int, Turns(fs, ts, ini), fs # << >>,
           NEW next, next = (ini + 1) % Len(fs)
    PROVE  /\ next \in 0 .. Len(fs) - 1
           /\ [ts EXCEPT ![fs[next + 1].name] = @ + 1] \in [1 .. N -> Nat]
           /\ Turns(fs, [ts EXCEPT ![fs[next + 1].name] = @ + 1], next)
<1>1. PICK l \in Nat \ {0} : l = Len(fs)
  BY DEF Inputs
<1>2. -1 <= ini /\ ini <= l - 1
  BY <1>1 DEF Turns
<1>3. PICK t \in Nat : \A i \in 1 .. l : ts[fs[i].name] = IF i <= ini + 1 THEN t + 1 ELSE t
  BY <1>1 DEF Turns
<1>4. next = (IF ini + 1 = l THEN 0 ELSE ini + 1)
  <2>1. CASE ini + 1 = l
    <3>1. l \in Int /\ 1 \in Int /\ 1 * l <= l /\ l < 1 * l + l /\ l - 1 * l = 0
      OBVIOUS
    <3>2. l % l = l - 1 * l
      BY <3>1, Quotient
    <3> QED
      BY <1>1, <2>1, <3>1, <3>2
  <2>2. CASE ini + 1 # l
    <3>1. PICK v \in Nat : v = ini + 1 /\ v < l
      <4>1. ini + 1 \in Nat /\ ini + 1 < l
        BY <1>2, <2>2
      <4> QED
        BY <4>1
    <3>2. v % l = v
      BY <3>1, SmallRest
    <3> QED
      BY <1>1, <2>2, <3>1, <3>2
  <2> QED
    BY <2>1, <2>2
<1>5. PICK e \in 1 .. l : e = next + 1
  <2>1. next + 1 \in 1 .. l
    BY <1>2, <1>4
  <2> QED
    BY <2>1
<1>6. PICK x \in 1 .. N : x = fs[e].name
  BY <1>1 DEF Inputs, AnInput
<1>7. PICK us : us = [ts EXCEPT ![x] = @ + 1]
  OBVIOUS
<1>8. us \in [1 .. N -> Nat] /\ us[x] = ts[x] + 1 /\ \A n \in 1 .. N : n # x => us[n] = ts[n]
  BY <1>7
<1>9. \A i \in 1 .. l : fs[i].name \in 1 .. N /\ (fs[i].name = x => i = e)
  <2>1. \A i \in 1 .. l : fs[i].name \in 1 .. N
    BY <1>1 DEF Inputs, AnInput
  <2>2. \A i \in 1 .. l : fs[i].name = x => i = e
    BY <1>1, <1>6, NamesDiffer
  <2> QED
    BY <2>1, <2>2
<1>10. PICK u \in Nat : u = IF ini + 1 = l THEN t + 1 ELSE t
  OBVIOUS
<1>11. ASSUME NEW i \in 1 .. l PROVE us[fs[i].name] = IF i <= next + 1 THEN u + 1 ELSE u
  <2>1. ts[fs[i].name] = IF i <= ini + 1 THEN t + 1 ELSE t
    BY <1>3
  <2>2. CASE i = e
    <3>1. us[fs[i].name] = ts[x] + 1 /\ ts[x] = IF i <= ini + 1 THEN t + 1 ELSE t
      BY <1>6, <1>8, <2>1, <2>2
    <3> QED
      BY <1>2, <1>4, <1>5, <1>10, <2>2, <3>1
  <2>3. CASE i # e
    <3>1. us[fs[i].name] = ts[fs[i].name]
      BY <1>8, <1>9, <2>3
    <3> QED
      BY <1>2, <1>4, <1>5, <1>10, <2>1, <2>3, <3>1
  <2> QED
    BY <2>2, <2>3
<1>12. Turns(fs, us, next)
  <2>1. -1 <= next /\ next <= l - 1
    BY <1>2, <1>4
  <2>2. \E t0 \in Nat : \A i \in 1 .. l : us[fs[i].name] = IF i <= next + 1 THEN t0 + 1 ELSE t0
    BY <1>11
  <2> QED
    BY <1>1, <2>1, <2>2 DEF Turns
<1> QED
  <2>1. next + 1 = e /\ next \in 0 .. l - 1
    BY <1>2, <1>4, <1>5
  <2>2. us = [ts EXCEPT ![fs[next + 1].name] = @ + 1]
    BY <1>6, <1>7, <2>1
  <2> QED
    BY <1>1, <1>8, <1>12, <2>1, <2>2
\* An input less.
LEMMA RemoveAtIs ==
    ASSUME NEW X, NEW fs \in Seq(X), NEW e \in 1 .. Len(fs)
    PROVE  /\ RemoveAt(fs, e) \in Seq(X) /\ Len(RemoveAt(fs, e)) = Len(fs) - 1
           /\ \A i \in 1 .. Len(fs) - 1 :
                 RemoveAt(fs, e)[i] = IF i < e THEN fs[i] ELSE fs[i + 1]
<1>1. PICK l \in Nat : l = Len(fs) /\ e <= l /\ 1 <= e
  OBVIOUS
<1>2. PICK a, b : a = SubSeq(fs, 1, e - 1) /\ b = SubSeq(fs, e + 1, l)
  OBVIOUS
<1>3. a \in Seq(X) /\ Len(a) = e - 1 /\ \A i \in 1 .. e - 1 : a[i] = fs[i]
  <2>1. 1 \in Int /\ e - 1 \in Int /\ \A i \in 1 .. e - 1 : fs[i] \in X
    BY <1>1
  <2>2. /\ a \in Seq(X) /\ Len(a) = (IF 1 <= e - 1 THEN e - 1 - 1 + 1 ELSE 0)
        /\ \A i \in 1 .. e - 1 - 1 + 1 : a[i] = fs[1 + i - 1]
    BY <1>2, <2>1, SubSeqProperties
  <2> QED
    BY <2>2
<1>4. b \in Seq(X) /\ Len(b) = l - e /\ \A i \in 1 .. l - e : b[i] = fs[e + i]
  <2>1. e + 1 \in Int /\ l \in Int /\ \A i \in e + 1 .. l : fs[i] \in X
    BY <1>1
  <2>2. /\ b \in Seq(X) /\ Len(b) = (IF e + 1 <= l THEN l - (e + 1) + 1 ELSE 0)
        /\ \A i \in 1 .. l - (e + 1) + 1 : b[i] = fs[(e + 1) + i - 1]
    BY <1>2, <2>1, SubSeqProperties
  <2>3. l - (e + 1) + 1 = l - e /\ \A i \in 1 .. l - e : (e + 1) + i - 1 = e + i
    BY <1>1
  <2> QED
    BY <1>1, <2>2, <2>3
<1>5. RemoveAt(fs, e) = a \o b
  BY <1>1, <1>2 DEF RemoveAt
<1>6. a \o b \in Seq(X) /\ Len(a \o b) = l - 1
  BY <1>1, <1>3, <1>4
<1>7. ASSUME NEW i \in 1 .. l - 1 PROVE (a \o b)[i] = IF i < e THEN fs[i] ELSE fs[i + 1]
  <2>1. CASE i < e
    <3>1. i \in 1 .. e - 1 /\ i <= Len(a)
      BY <1>3, <2>1
    <3> QED
      BY <1>3, <1>4, <2>1, <3>1
  <2>2. CASE ~(i < e)
    <3>1. i - (e - 1) \in 1 .. l - e /\ ~(i <= Len(a)) /\ e + (i - (e - 1)) = i + 1
      BY <1>1, <1>3, <2>2
    <3>2. (a \o b)[i] = b[i - (e - 1)]
      BY <1>3, <1>4, <3>1
    <3>3. b[i - (e - 1)] = fs[e + (i - (e - 1))]
      BY <1>4, <3>1
    <3> QED
      BY <2>2, <3>1, <3>2, <3>3
  <2> QED
    BY <2>1, <2>2
<1> QED
  BY <1>1, <1>5, <1>6, <1>7


LEMMA OneLess ==
    ASSUME NEW N \in Nat, NEW ls \in [1 .. N -> Nat], NEW fs, Inputs(fs, ls, N),
           NEW ts, NEW next \in Nat, Turns(fs, ts, next), next + 1 \in 1 .. Len(fs),
           NEW R \in [1 .. N -> Nat], HaveRead(fs, ls, R, N),
           fs[next + 1].pos = ls[fs[next + 1].name]
    PROVE  LET gs == RemoveAt(fs, next + 1)
           IN Inputs(gs, ls, N) /\ Turns(gs, ts, next - 1) /\ HaveRead(gs, ls, R, N)
<1>1. PICK e \in Nat, l \in Nat : e = next + 1 /\ l = Len(fs) /\ e \in 1 .. l
  <2>1. fs \in Seq(InFiles)
    BY DEF Inputs
  <2>2. Len(fs) \in Nat
    BY <2>1
  <2> QED
    BY SMTT(30), <2>2
<1>2. PICK gs : gs = RemoveAt(fs, e)
  OBVIOUS
<1>3. /\ gs \in Seq(InFiles) /\ Len(gs) = l - 1
      /\ \A i \in 1 .. l - 1 : gs[i] = IF i < e THEN fs[i] ELSE fs[i + 1]
  <2>1. fs \in Seq(InFiles) /\ e \in 1 .. Len(fs)
    BY <1>1 DEF Inputs
  <2> QED
    BY <1>1, <1>2, <2>1, RemoveAtIs
<1>4. ASSUME NEW i \in 1 .. l - 1
      PROVE  \E k \in 1 .. l : gs[i] = fs[k] /\ k = IF i < e THEN i ELSE i + 1
  <2>1. i \in 1 .. l /\ i + 1 \in 1 .. l
    BY <1>1
  <2> QED
    BY <1>3, <2>1
<1>5. Inputs(gs, ls, N)
  <2>1. \A i \in 1 .. l - 1 : AnInput(gs[i], ls, N)
    BY <1>1, <1>4 DEF Inputs
  <2>2. ASSUME NEW j \in 1 .. l - 1, NEW i \in 1 .. j - 1 PROVE gs[i].name < gs[j].name
    <3>1. i \in 1 .. l - 1 /\ i < j
      BY <1>1
    <3>2. PICK k \in 1 .. l : gs[j] = fs[k] /\ k = IF j < e THEN j ELSE j + 1
      BY <1>4
    <3>3. PICK h \in 1 .. l : gs[i] = fs[h] /\ h = IF i < e THEN i ELSE i + 1
      BY <1>4, <3>1
    <3>4. h \in 1 .. k - 1
      BY <1>1, <3>1, <3>2, <3>3
    <3> QED
      BY <1>1, <3>2, <3>3, <3>4 DEF Inputs
  <2> QED
    BY <1>3, <2>1, <2>2 DEF Inputs
<1>6. Turns(gs, ts, next - 1)
  <2>1. PICK t \in Nat : \A i \in 1 .. l : ts[fs[i].name] = IF i <= next + 1 THEN t + 1 ELSE t
    BY <1>1 DEF Turns
  <2>2. ASSUME NEW i \in 1 .. l - 1
        PROVE  ts[gs[i].name] = IF i <= (next - 1) + 1 THEN t + 1 ELSE t
    <3>1. PICK k \in 1 .. l : gs[i] = fs[k] /\ k = IF i < e THEN i ELSE i + 1
      BY <1>4
    <3>2. k <= next + 1 <=> i <= (next - 1) + 1
      BY <1>1, <3>1
    <3> QED
      BY <2>1, <3>1, <3>2
  <2>3. -1 <= next - 1 /\ next - 1 <= l - 1 - 1
    BY <1>1
  <2> QED
    BY <1>3, <2>2, <2>3 DEF Turns
<1>7. HaveRead(gs, ls, R, N)
  <2>3. \A i \in 1 .. l : R[fs[i].name] = fs[i].pos
    BY <1>1 DEF HaveRead
  <2>1. ASSUME NEW i \in 1 .. l - 1 PROVE R[gs[i].name] = gs[i].pos
    <3>1. PICK k \in 1 .. l : gs[i] = fs[k]
      BY <1>4
    <3> QED
      BY <2>3, <3>1
  <2>2. ASSUME NEW n \in 1 .. N
        PROVE  R[n] <= ls[n] /\ (R[n] = ls[n] \/ \E i \in 1 .. l - 1 : gs[i].name = n)
    <3>1. R[n] <= ls[n] /\ (R[n] = ls[n] \/ \E i \in 1 .. l : fs[i].name = n)
      BY <1>1 DEF HaveRead
    <3>2. ASSUME R[n] # ls[n] PROVE \E i \in 1 .. l - 1 : gs[i].name = n
      <4>1. PICK k \in 1 .. l : fs[k].name = n
        BY <3>1, <3>2
      <4>2. k # e
        <5>1. R[fs[e].name] = fs[e].pos /\ fs[e].pos = ls[fs[e].name]
          BY <1>1 DEF HaveRead
        <5> QED
          BY <3>2, <4>1, <5>1
      <4>3. PICK i \in 1 .. l - 1 : k = IF i < e THEN i ELSE i + 1
        <5>1. CASE k < e
          <6>1. k \in 1 .. l - 1
            BY <1>1, <5>1
          <6> QED
            BY <5>1, <6>1
        <5>2. CASE ~(k < e)
          <6>1. k - 1 \in 1 .. l - 1 /\ ~(k - 1 < e) /\ k = (k - 1) + 1
            BY <1>1, <4>2, <5>2
          <6> QED
            BY <6>1
        <5> QED
          BY <5>1, <5>2
      <4>4. gs[i] = fs[k]
        BY <1>3, <4>3
      <4> QED
        BY <4>1, <4>4
    <3> QED
      BY <3>1, <3>2
  <2> QED
    BY <1>3, <2>1, <2>2 DEF HaveRead
<1> QED
  BY <1>1, <1>2, <1>5, <1>6, <1>7

\* An input further on.
LEMMA OneOn ==
    ASSUME NEW N \in Nat, NEW ls \in [1 .. N -> Nat], NEW fs, Inputs(fs, ls, N),
           NEW ts, NEW next, Turns(fs, ts, next), NEW e \in 1 .. Len(fs),
           NEW R \in [1 .. N -> Nat], HaveRead(fs, ls, R, N),
           NEW h \in InFiles, h.name = fs[e].name, h.data = fs[e].data,
           NEW m \in Nat, h.pos = fs[e].pos + m, fs[e].pos + m <= ls[h.name]
    PROVE  LET gs == [fs EXCEPT ![e] = h]
               S  == [R EXCEPT ![h.name] = R[h.name] + m]
           IN Inputs(gs, ls, N) /\ Turns(gs, ts, next) /\ HaveRead(gs, ls, S, N)
<1>1. PICK l \in Nat, x \in 1 .. N : l = Len(fs) /\ x = h.name /\ x = fs[e].name
  <2>1. fs \in Seq(InFiles)
    BY DEF Inputs
  <2>2. Len(fs) \in Nat
    BY <2>1
  <2>3. fs[e].name \in 1 .. N
    BY DEF Inputs, AnInput
  <2> QED
    BY <2>2, <2>3
<1>2. PICK gs, S : gs = [fs EXCEPT ![e] = h] /\ S = [R EXCEPT ![x] = R[x] + m]
  OBVIOUS
<1>3. /\ gs \in Seq(InFiles) /\ Len(gs) = l /\ gs[e] = h
      /\ \A i \in 1 .. l : (i # e => gs[i] = fs[i]) /\ gs[i].name = fs[i].name
  <2>1. fs \in Seq(InFiles)
    BY DEF Inputs
  <2>2. gs \in Seq(InFiles) /\ Len(gs) = l /\ gs[e] = h /\ \A i \in 1 .. l : i # e => gs[i] = fs[i]
    BY <1>1, <1>2, <2>1
  <2> QED
    BY <2>2
<1>4. /\ \A i \in 1 .. l : AnInput(fs[i], ls, N) /\ R[fs[i].name] = fs[i].pos
      /\ \A j \in 1 .. l : \A i \in 1 .. j - 1 : fs[i].name < fs[j].name
  BY <1>1 DEF Inputs, HaveRead
<1>5. ASSUME NEW j \in 1 .. l, NEW i \in 1 .. j - 1 PROVE gs[i].name < gs[j].name
  <2>1. i \in 1 .. l
    BY <1>1
  <2>2. gs[i].name = fs[i].name /\ gs[j].name = fs[j].name
    BY <1>3, <2>1
  <2> QED
    BY <1>4, <2>2
<1>6. AnInput(h, ls, N)
  <2>1. AnInput(fs[e], ls, N)
    BY <1>1, <1>4
  <2> QED
    BY <2>1 DEF AnInput
<1>7. Inputs(gs, ls, N)
  <2>1. \A i \in 1 .. l : AnInput(gs[i], ls, N)
    BY <1>3, <1>4, <1>6
  <2> QED
    BY <1>3, <1>5, <2>1 DEF Inputs
<1>8. Turns(gs, ts, next)
  <2>1. PICK t \in Nat : \A i \in 1 .. l : ts[fs[i].name] = IF i <= next + 1 THEN t + 1 ELSE t
    BY <1>1 DEF Turns
  <2>2. \A i \in 1 .. l : ts[gs[i].name] = IF i <= next + 1 THEN t + 1 ELSE t
    BY <1>3, <2>1
  <2>3. -1 <= next /\ next <= l - 1
    BY <1>1 DEF Turns
  <2> QED
    BY <1>3, <2>2, <2>3 DEF Turns
<1>9. S[x] = R[x] + m /\ \A n \in 1 .. N : n # x => S[n] = R[n]
  BY <1>2
<1>10. R[x] = fs[e].pos /\ R[x] + m <= ls[x] /\ h.pos = R[x] + m
  BY <1>1, <1>4
<1>11. ASSUME NEW i \in 1 .. l PROVE S[gs[i].name] = gs[i].pos
  <2>1. CASE i = e
    BY <1>1, <1>3, <1>9, <1>10, <2>1
  <2>2. CASE i # e
    <3>1. fs[i].name # x
      BY <1>1, <2>2, NamesDiffer
    <3>2. fs[i].name \in 1 .. N
      BY <1>4 DEF AnInput
    <3> QED
      BY ZenonT(30), <1>3, <1>4, <1>9, <2>2, <3>1, <3>2
  <2> QED
    BY <2>1, <2>2
<1>12. ASSUME NEW n \in 1 .. N
       PROVE  S[n] <= ls[n] /\ (S[n] = ls[n] \/ \E i \in 1 .. l : gs[i].name = n)
  <2>1. CASE n = x
    BY <1>1, <1>3, <1>9, <1>10, <2>1
  <2>2. CASE n # x
    <3>1. R[n] <= ls[n] /\ (R[n] = ls[n] \/ \E i \in 1 .. l : fs[i].name = n)
      BY <1>1 DEF HaveRead
    <3>2. S[n] = R[n]
      BY <1>9, <2>2
    <3>3. \A i \in 1 .. l : gs[i].name = fs[i].name
      BY <1>3
    <3> QED
      BY <3>1, <3>2, <3>3
  <2> QED
    BY <2>1, <2>2
<1>13. HaveRead(gs, ls, S, N)
  BY <1>3, <1>11, <1>12 DEF HaveRead
<1> QED
  BY <1>1, <1>2, <1>7, <1>8, <1>13


\* Of numbers there is a least.
LEMMA MinOf ==
    ASSUME NEW S \in SUBSET Nat, S # {}
    PROVE  Min(S) \in S
<1>1. PICK R : R = OpToRel(<, Nat)
  OBVIOUS
<1>2. PICK x \in S : \A y \in S : ~(<<y, x>> \in R)
  <2>1. IsWellFoundedOn(R, Nat)
    BY <1>1, NatLessThanWellFounded
  <2> QED
    BY <2>1, WFMin, Zenon
<1>3. \A y \in S : x <= y
  <2>1. ASSUME NEW y \in S PROVE x <= y
    <3>1. ~(y < x)
      BY <1>1, <1>2 DEF OpToRel
    <3> QED
      BY <3>1
  <2> QED
    BY <2>1
<1>4. \E z \in S : \A y \in S : z <= y
  BY <1>3
<1>5. PICK m : m = Min(S)
  OBVIOUS
<1>6. m \in S
  BY <1>4, <1>5 DEF Min
<1> QED
  BY <1>5, <1>6

\* What a program reads of a file: its next bytes, and nothing at its end only.
Piece(s, f) ==
    /\ s \in Seq(Bytes) /\ (s = << >> <=> f.pos >= Len(f.data))
    /\ \A i \in 1 .. Len(s) : s[i] = f.data[f.pos + i] /\ f.pos + i \in 1 .. Len(f.data)

LEMMA PieceRead ==
    ASSUME NEW f \in InFiles, NEW n \in Nat \ {0}
    PROVE  Piece(BytesRead(f, n), f)
BY ReadIs DEF Piece

LEMMA PieceOfLine ==
    ASSUME NEW f \in InFiles, NEW n \in Nat \ {0}
    PROVE  Piece(NextLine(f, n), f)
<1>1. PICK s : s = BytesRead(f, n)
  OBVIOUS
<1>2. Piece(s, f)
  BY <1>1, PieceRead
<1>3. PICK ends : ends = {k \in DOMAIN s : IsNewline(s[k])}
  OBVIOUS
<1>4. NextLine(f, n) = IF ends = {} THEN s ELSE FirstBytes(s, Min(ends))
  BY <1>1, <1>3 DEF NextLine
<1>5. CASE ends = {}
  BY <1>2, <1>4, <1>5
<1>6. CASE ends # {}
  <2>1. s \in Seq(Bytes) /\ DOMAIN s = 1 .. Len(s)
    BY <1>2 DEF Piece
  <2>2. ends \in SUBSET Nat
    BY <1>3, <2>1
  <2>3. PICK k \in 1 .. Len(s) : k = Min(ends)
    BY <1>3, <1>6, <2>1, <2>2, MinOf
  <2>4. PICK t : t = SubSeq(s, 1, k)
    OBVIOUS
  <2>5. t \in Seq(Bytes) /\ Len(t) = k /\ \A i \in 1 .. k : t[i] = s[i]
    <3>1. k \in Int /\ 1 \in Int /\ \A i \in 1 .. k : s[i] \in Bytes
      BY <2>1
    <3>2. /\ t \in Seq(Bytes) /\ Len(t) = (IF 1 <= k THEN k - 1 + 1 ELSE 0)
          /\ \A i \in 1 .. k - 1 + 1 : t[i] = s[1 + i - 1]
      BY <2>4, <3>1, SubSeqProperties
    <3> QED
      BY <3>1, <3>2
  <2>6. NextLine(f, n) = t
    BY <1>4, <1>6, <2>3, <2>4 DEF FirstBytes
  <2>7. s # << >> /\ t # << >>
    BY <2>1, <2>5
  <2>8. \A i \in 1 .. k : i \in 1 .. Len(s)
    BY <2>1
  <2> QED
    BY <1>2, <2>5, <2>6, <2>7, <2>8 DEF Piece
<1> QED
  BY <1>5, <1>6

GatherOK ==
    /\ lengths \in [1 .. args.inputs -> Nat] /\ turns \in [1 .. args.inputs -> Nat]
    /\ outf \in [1 .. args.outputs -> OutFiles]
    /\ local \in LocalTypes /\ local.outi \in 0 .. args.outputs - 1
    /\ Inputs(inf, lengths, args.inputs) /\ Turns(inf, turns, local.ini)
    /\ \A o \in 1 .. args.outputs : outf[o].pos = Len(outf[o].data)
    /\ \E R \in [1 .. args.inputs -> Nat] :
          /\ HaveRead(inf, lengths, R, args.inputs)
          /\ ReadAndWritten([o \in 1 .. args.outputs |-> outf[o].data], R, args.inputs, args.outputs)
    /\ pc = "done" => inf = << >>

LEMMA GatherKeeps ==
    ASSUME Usable, GatherOK, Gather
    PROVE  GatherOK' /\ pc' \in {"copy", "done"} /\ UNCHANGED <<command, args>>
<1>1. PICK N \in Nat \ {0}, M \in Nat \ {0}, B \in Nat \ {0} :
              N = args.inputs /\ M = args.outputs /\ B = BlockSize
  BY BlockSizeIs DEF Usable, ArgTypes
<1>2. /\ lengths' = lengths /\ command' = command /\ args' = args /\ pc = "copy"
      /\ lengths \in [1 .. N -> Nat] /\ turns \in [1 .. N -> Nat]
      /\ outf \in [1 .. M -> OutFiles] /\ local \in LocalTypes /\ local.outi \in 0 .. M - 1
      /\ Inputs(inf, lengths, N) /\ Turns(inf, turns, local.ini)
      /\ \A o \in 1 .. M : outf[o].pos = Len(outf[o].data)
  BY <1>1 DEF Gather, Running, GatherOK
<1>3. PICK R \in [1 .. N -> Nat] :
          /\ HaveRead(inf, lengths, R, N)
          /\ ReadAndWritten([o \in 1 .. M |-> outf[o].data], R, N, M)
  BY <1>1 DEF GatherOK
<1>4. CASE inf = << >>
  <2>1. /\ inf' = inf /\ outf' = outf /\ local' = local /\ turns' = turns /\ pc' = "done"
    BY <1>4 DEF Gather, Finish
  <2> QED
    BY <1>1, <1>2, <1>3, <1>4, <2>1 DEF GatherOK
<1>5. CASE inf # << >>
  <2>1a. PICK l \in Nat \ {0} : l = Len(inf)
    <3>1. inf \in Seq(InFiles)
      BY <1>2 DEF Inputs
    <3>2. Len(inf) \in Nat \ {0}
      BY <1>5, <3>1
    <3> QED
      BY <3>2
  <2>1. PICK next, e, f, s :
            /\ l = Len(inf) /\ next = (local.ini + 1) % l /\ e = next + 1 /\ f = inf[e]
            /\ s = IF args.lines THEN NextLine(f, B) ELSE BytesRead(f, B)
    BY <2>1a
  <2>2. PICK us : us = [turns EXCEPT ![f.name] = @ + 1]
    OBVIOUS
  <2>3. next \in 0 .. l - 1 /\ us \in [1 .. N -> Nat] /\ Turns(inf, us, next)
    <3>1. local.ini \in Int
      BY <1>2 DEF LocalTypes
    <3> QED
      BY <1>2, <1>5, <2>1, <2>2, <3>1, NextTurn
  <2>4. e \in 1 .. l /\ next \in Nat
    BY <2>1, <2>3
  <2>5. f \in InFiles /\ AnInput(f, lengths, N)
    BY <1>2, <2>1, <2>4 DEF Inputs
  <2>6. Piece(s, f)
    BY <2>1, <2>5, PieceRead, PieceOfLine
  <2>7. PICK z \in Nat, p \in Nat, x \in 1 .. N :
               /\ z = lengths[x] /\ p = f.pos /\ x = f.name /\ p <= z /\ Len(f.data) = z
               /\ f.data = [k \in 1 .. z |-> ByteOf(x, k)] /\ R[x] = p
    <3>1. PICK x \in 1 .. N : x = f.name
      BY <2>5 DEF AnInput
    <3>2. PICK z \in Nat : z = lengths[x]
      BY <1>2
    <3>3. f.pos \in Nat /\ f.pos <= z /\ f.data = [k \in 1 .. z |-> ByteOf(x, k)]
      BY <2>5, <3>1, <3>2 DEF AnInput, InFiles
    <3>4. Len(f.data) = z
      BY <3>3
    <3>5. R[x] = f.pos
      BY <1>3, <2>1, <2>4, <3>1 DEF HaveRead
    <3> QED
      BY <3>1, <3>2, <3>3, <3>4, <3>5
  <2>8. turns' = us /\ pc' = pc
    BY <1>1, <1>5, <2>1, <2>2 DEF Gather
  <2>9. CASE s = << >>
    <3>1. inf' = RemoveAt(inf, e) /\ outf' = outf /\ local' = [local EXCEPT !.ini = AfterErase(next)]
      BY <1>1, <1>5, <2>1, <2>9 DEF Gather
    <3>2. f.pos = lengths[f.name]
      BY <2>6, <2>7, <2>9 DEF Piece
    <3>3. Inputs(inf', lengths, N) /\ Turns(inf', us, next - 1) /\ HaveRead(inf', lengths, R, N)
      BY <1>2, <1>3, <2>1, <2>3, <2>4, <3>1, <3>2, OneLess
    <3>4. local' \in LocalTypes /\ local'.ini = next - 1 /\ local'.outi = local.outi
      <4>1. PICK y \in Int : y = next - 1 /\ y = AfterErase(next)
        BY <2>4 DEF AfterErase
      <4>2. local' = [local EXCEPT !.ini = y]
        BY <3>1, <4>1
      <4> QED
        BY <1>2, <4>1, <4>2 DEF LocalTypes
    <3> QED
      BY <1>1, <1>2, <1>3, <2>3, <2>8, <3>1, <3>3, <3>4 DEF GatherOK
  <2>10. CASE s # << >>
    <3>1. PICK o \in 1 .. M, g \in OutFiles, a \in Nat, m \in Nat :
               /\ o = local.outi + 1 /\ g = outf[o] /\ a = g.pos /\ a = Len(g.data) /\ m = Len(s)
      <4>1. PICK o \in 1 .. M : o = local.outi + 1
        <5>1. local.outi + 1 \in 1 .. M
          BY <1>2
        <5> QED
          BY <5>1
      <4>2. PICK g \in OutFiles : g = outf[o]
        BY <1>2
      <4>3. g.pos \in Nat /\ g.pos = Len(g.data) /\ Len(s) \in Nat
        BY <1>2, <2>6, <4>2 DEF OutFiles, Piece
      <4> QED
        BY <4>1, <4>2, <4>3
    <3>2. /\ inf' = [inf EXCEPT ![e] = Past(f, s)] /\ outf' = [outf EXCEPT ![o] = Write(g, s)]
          /\ local' = [local EXCEPT !.ini = next, !.outi = (@ + 1) % Len(outf)]
      BY <1>1, <1>5, <2>1, <2>10, <3>1 DEF Gather
    <3>3. m # 0 /\ s \in Seq(Bytes) /\ \A i \in 1 .. m : s[i] = ByteOf(x, p + i) /\ p + i <= z
      <4>1. s \in Seq(Bytes) /\ \A i \in 1 .. m : s[i] = f.data[p + i] /\ p + i \in 1 .. z
        BY <2>6, <2>7, <3>1 DEF Piece
      <4> QED
        BY <2>7, <2>10, <3>1, <4>1
    <3>4. PICK h \in InFiles : h = Past(f, s) /\ h.name = x /\ h.data = f.data /\ h.pos = p + m
      <4>1. /\ Past(f, s) \in InFiles /\ Past(f, s).pos = f.pos + Len(s)
            /\ Past(f, s).data = f.data /\ Past(f, s).name = f.name
        BY <2>5, <3>3, PastIs
      <4> QED
        BY <2>7, <3>1, <4>1
    <3>5. p + m <= z
      <4>1. m \in 1 .. m
        BY <3>1, <3>3
      <4> QED
        BY <3>3, <4>1
    <3>6. PICK S : S = [R EXCEPT ![x] = p + m]
      OBVIOUS
    <3>7. S \in [1 .. N -> Nat]
      BY <3>6
    <3>8. Inputs(inf', lengths, N) /\ Turns(inf', us, next) /\ HaveRead(inf', lengths, S, N)
      <4>1. /\ h.name = inf[e].name /\ h.data = inf[e].data /\ h.pos = inf[e].pos + m
            /\ inf[e].pos + m <= lengths[h.name]
        BY <2>1, <2>7, <3>4, <3>5
      <4>2. e \in 1 .. Len(inf) /\ N \in Nat
        BY <2>1, <2>4
      <4>3. /\ Inputs([inf EXCEPT ![e] = h], lengths, N) /\ Turns([inf EXCEPT ![e] = h], us, next)
            /\ HaveRead([inf EXCEPT ![e] = h], lengths, [R EXCEPT ![h.name] = R[h.name] + m], N)
        BY <1>2, <1>3, <2>3, <4>1, <4>2, OneOn
      <4>4. inf' = [inf EXCEPT ![e] = h] /\ S = [R EXCEPT ![h.name] = R[h.name] + m]
        BY <2>7, <3>2, <3>4, <3>6
      <4> QED
        BY <4>3, <4>4
    <3>9. PICK w \in OutFiles, d \in Seq(Bytes) :
              /\ w = Write(g, s) /\ d = w.data /\ w.pos = a + m /\ Len(d) = a + m
              /\ \A i \in 1 .. a : d[i] = g.data[i]
              /\ \A i \in 1 .. m : d[a + i] = s[i]
      <4>1. /\ Write(g, s) \in OutFiles /\ Write(g, s).pos = g.pos + Len(s)
            /\ Len(Write(g, s).data) = IF s = << >> \/ Len(g.data) >= g.pos + Len(s)
                                       THEN Len(g.data) ELSE g.pos + Len(s)
            /\ \A k \in 1 .. Len(Write(g, s).data) :
                  Write(g, s).data[k] = IF k > g.pos /\ k <= g.pos + Len(s) THEN s[k - g.pos]
                                        ELSE IF k <= Len(g.data) THEN g.data[k] ELSE Hole
        BY <3>3, WriteIs
      <4>2. PICK w \in OutFiles, d \in Seq(Bytes) : w = Write(g, s) /\ d = w.data
        BY <4>1 DEF OutFiles
      <4>3. /\ w.pos = a + m /\ Len(d) = a + m
            /\ \A k \in 1 .. a + m : d[k] = IF k > a /\ k <= a + m THEN s[k - a]
                                            ELSE IF k <= a THEN g.data[k] ELSE Hole
        <5>1. ~(a >= a + m)
          BY <3>1, <3>3
        <5> QED
          BY <2>10, <3>1, <4>1, <4>2, <5>1
      <4>4. \A i \in 1 .. a : i \in 1 .. a + m /\ ~(i > a) /\ i <= a
        OBVIOUS
      <4>5. \A i \in 1 .. m : a + i \in 1 .. a + m /\ a + i > a /\ a + i <= a + m /\ a + i - a = i
        OBVIOUS
      <4>6. \A i \in 1 .. a : d[i] = g.data[i]
        BY <4>3, <4>4
      <4>7. \A i \in 1 .. m : d[a + i] = s[i]
        BY <4>3, <4>5
      <4> QED
        BY <4>2, <4>3, <4>6, <4>7
    <3>10. PICK D : D = [q \in 1 .. M |-> outf[q].data]
      OBVIOUS
    <3>11. D \in [1 .. M -> Seq(Bytes)] /\ ReadAndWritten(D, R, N, M) /\ Len(D[o]) = a
           /\ \A i \in 1 .. a : d[i] = D[o][i]
      <4>1. \A q \in 1 .. M : outf[q].data \in Seq(Bytes)
        BY <1>2 DEF OutFiles
      <4>2. D \in [1 .. M -> Seq(Bytes)] /\ D[o] = g.data
        BY <3>1, <3>10, <4>1
      <4> QED
        BY <1>3, <3>1, <3>9, <3>10, <4>2
    <3>12. \A i \in 1 .. m : d[a + i] = ByteOf(x, p + i)
      BY <3>3, <3>9
    <3>13. ReadAndWritten([D EXCEPT ![o] = d], S, N, M)
      <4>1. \A i \in 1 .. a : d[i] = D[o][i]
        BY <3>11
      <4>2. N \in Nat /\ M \in Nat /\ a = Len(D[o]) /\ Len(d) = a + m /\ p = R[x]
        BY <2>7, <3>9, <3>11
      <4> QED
        BY <3>6, <3>11, <3>12, <4>1, <4>2, WrittenMore
    <3>14. [q \in 1 .. M |-> outf'[q].data] = [D EXCEPT ![o] = d]
      <4>1. \A q \in 1 .. M : outf'[q].data = IF q = o THEN d ELSE outf[q].data
        BY <1>2, <3>2, <3>9
      <4> QED
        BY <3>10, <4>1
    <3>15. outf' \in [1 .. M -> OutFiles] /\ \A q \in 1 .. M : outf'[q].pos = Len(outf'[q].data)
      <4>1. outf' \in [1 .. M -> OutFiles] /\ outf'[o] = w /\ \A q \in 1 .. M : q # o => outf'[q] = outf[q]
        BY <1>2, <3>2, <3>9
      <4> QED
        BY <1>2, <3>9, <4>1
    <3>16. local' \in LocalTypes /\ local'.ini = next /\ local'.outi \in 0 .. M - 1
      <4>1. Len(outf) = M
        BY <1>2
      <4>2. PICK v \in Nat, y \in Nat : v = local.outi + 1 /\ y = v % M /\ y < M
        <5>1. PICK v \in Nat : v = local.outi + 1
          BY <1>2
        <5>2. \E c, y \in Nat : /\ v \div M = c /\ v % M = y /\ y < M /\ v = c * M + y
                                /\ c * M <= v /\ v < (c + 1) * M
          BY Remainders, Zenon
        <5> QED
          BY <5>1, <5>2
      <4>3. local' = [local EXCEPT !.ini = next, !.outi = y]
        BY <3>2, <4>1, <4>2
      <4>4. PICK c \in Int : c = next
        BY <2>4
      <4>5. local' = [local EXCEPT !.ini = c, !.outi = y]
        BY <4>3, <4>4
      <4>6. y \in 0 .. M - 1
        BY <4>2
      <4> QED
        BY <1>2, <4>4, <4>5, <4>6 DEF LocalTypes
    <3> QED
      BY ZenonT(30), <1>1, <1>2, <2>3, <2>8, <3>7, <3>8, <3>13, <3>14, <3>15, <3>16 DEF GatherOK
  <2> QED
    BY <2>9, <2>10
<1> QED
  BY <1>4, <1>5


LEMMA GatherBegins ==
    ASSUME Usable, Program = "gather", Open, pc' = "copy"
    PROVE  GatherOK'
<1>1. PICK N \in Nat \ {0}, M \in Nat \ {0} : N = args.inputs /\ M = args.outputs
  BY DEF Usable, ArgTypes
<1>2. PICK seekable \in BOOLEAN : inf' = [n \in 1 .. N |-> InputFile(n, lengths'[n], seekable)]
  BY <1>1 DEF Open
<1>3. /\ lengths' \in [1 .. N -> Lengths] /\ outf' = [n \in 1 .. M |-> OutputFile]
      /\ turns' = [n \in 1 .. N |-> 0] /\ local' = Locals(inf'[1]) /\ args' = args
  BY <1>1 DEF Open
<1>4. lengths' \in [1 .. N -> Nat]
  BY <1>3, CatAssumption
<1>5. ASSUME NEW n \in 1 .. N
      PROVE  /\ inf'[n] \in InFiles /\ inf'[n].name = n /\ inf'[n].pos = 0
             /\ AnInput(inf'[n], lengths', N)
  <2>1. n \in Nat
    OBVIOUS
  <2>2. PICK length \in Nat : length = lengths'[n]
    BY <1>4
  <2>3. inf'[n] = InputFile(n, length, seekable)
    BY <1>2, <2>2
  <2>4. /\ inf'[n] \in InFiles /\ inf'[n].name = n /\ inf'[n].pos = 0
        /\ inf'[n].data = [k \in 1 .. length |-> ByteOf(n, k)]
    BY <2>1, <2>3, InputIs
  <2> QED
    BY <2>2, <2>4 DEF AnInput
<1>6. inf' \in Seq(InFiles) /\ Len(inf') = N
  <2>1. inf' \in [1 .. N -> InFiles]
    BY <1>2, <1>5
  <2> QED
    BY <2>1
<1>7. Inputs(inf', lengths', N)
  <2>1. ASSUME NEW j \in 1 .. N, NEW i \in 1 .. j - 1 PROVE inf'[i].name < inf'[j].name
    <3>1. i \in 1 .. N /\ i < j
      OBVIOUS
    <3> QED
      BY <1>5, <3>1
  <2> QED
    BY <1>5, <1>6, <2>1 DEF Inputs
<1>8. /\ local' \in LocalTypes /\ local'.ini = -1 /\ local'.outi = 0
  <2>1. ~Sized
    BY DEF Sized
  <2>2. PICK z \in Int : z = args.size
    BY DEF Usable, ArgTypes
  <2>3. PICK B \in Nat : B = BlockSize
    BY BlockSizeIs
  <2>4. local' = [size |-> z, pos |-> 0, written |-> 0, block |-> B, ini |-> -1, outi |-> 0,
                  blockpos |-> << >>]
    BY <1>3, <2>1, <2>2, <2>3 DEF Locals
  <2>5. << >> \in Seq(Nat)
    OBVIOUS
  <2> QED
    BY <2>4, <2>5 DEF LocalTypes
<1>9. turns' \in [1 .. N -> Nat] /\ Turns(inf', turns', -1)
  <2>1. \A i \in 1 .. N : turns'[inf'[i].name] = IF i <= -1 + 1 THEN 0 + 1 ELSE 0
    BY <1>3, <1>5
  <2>2. -1 <= -1 /\ -1 <= N - 1 /\ 0 \in Nat
    OBVIOUS
  <2>3. turns' \in [1 .. N -> Nat]
    BY <1>3
  <2> QED
    BY <1>6, <2>1, <2>2, <2>3 DEF Turns
<1>10. PICK R : R = [n \in 1 .. N |-> 0]
  OBVIOUS
<1>11. R \in [1 .. N -> Nat] /\ HaveRead(inf', lengths', R, N)
  <2>1. \A n \in 1 .. N : R[n] = 0 /\ R[n] <= lengths'[n] /\ inf'[n].name = n
    BY <1>4, <1>5, <1>10
  <2>2. R \in [1 .. N -> Nat]
    BY <1>10
  <2> QED
    BY <1>5, <1>6, <2>1, <2>2 DEF HaveRead
<1>12. OutputFile \in OutFiles /\ OutputFile.pos = 0 /\ OutputFile.data = << >> /\ Len(<< >>) = 0
  BY DEF OutputFile, OutFiles
<1>13. /\ outf' \in [1 .. M -> OutFiles]
       /\ \A o \in 1 .. M : outf'[o].pos = Len(outf'[o].data) /\ outf'[o].data = << >>
  BY <1>3, <1>12
<1>17. PICK D : D = [o \in 1 .. M |-> outf'[o].data]
  OBVIOUS
<1>14. D = [o \in 1 .. M |-> outf'[o].data] /\ \A o \in 1 .. M : D[o] = << >>
  BY <1>13, <1>17
<1>15. ReadAndWritten(D, R, N, M)
  <2>1. \A o \in 1 .. M : Len(D[o]) = 0
    BY <1>12, <1>14
  <2>2. \A n \in 1 .. N : R[n] = 0
    BY <1>10
  <2> QED
    BY <2>1, <2>2 DEF ReadAndWritten
<1>16. 0 \in 0 .. M - 1
  OBVIOUS
<1> QED
  BY <1>1, <1>3, <1>4, <1>7, <1>8, <1>9, <1>11, <1>13, <1>14, <1>15, <1>16 DEF GatherOK

LEMMA GathersEverything ==
    ASSUME Usable, GatherOK
    PROVE  GathersAll
<1>1. PICK N \in Nat \ {0}, M \in Nat \ {0} : N = args.inputs /\ M = args.outputs
  BY DEF Usable, ArgTypes
<1>2. /\ lengths \in [1 .. N -> Nat] /\ turns \in [1 .. N -> Nat]
      /\ outf \in [1 .. M -> OutFiles]
      /\ Inputs(inf, lengths, N) /\ Turns(inf, turns, local.ini)
      /\ pc = "done" => inf = << >>
  BY <1>1 DEF GatherOK
<1>3. PICK R \in [1 .. N -> Nat] :
          HaveRead(inf, lengths, R, N) /\ ReadAndWritten([o \in 1 .. M |-> outf[o].data], R, N, M)
  BY <1>1 DEF GatherOK
<1>4. PICK D : D = [o \in 1 .. M |-> outf[o].data]
  OBVIOUS
<1>5. \A o \in 1 .. M : D[o] = outf[o].data /\ outf[o].data \in Seq(Bytes)
  BY <1>2, <1>4 DEF OutFiles
<1>6. /\ \A o \in 1 .. M : DOMAIN outf[o].data = 1 .. Len(D[o])
      /\ DOMAIN outf = 1 .. M
  BY <1>2, <1>5
<1>7. \A i, j \in DOMAIN inf :
         i < j => turns[inf[i].name] - turns[inf[j].name] \in {0, 1}
  <2>1. DOMAIN inf = 1 .. Len(inf)
    BY <1>2 DEF Inputs
  <2>2. PICK t \in Nat : \A i \in 1 .. Len(inf) :
               turns[inf[i].name] = IF i <= local.ini + 1 THEN t + 1 ELSE t
    BY <1>2 DEF Turns
  <2>3. local.ini \in Int
    BY DEF GatherOK, LocalTypes
  <2>4. t + 1 - (t + 1) = 0 /\ t + 1 - t = 1 /\ t - t = 0
    OBVIOUS
  <2> QED
    BY SMTT(30), <2>1, <2>2, <2>3, <2>4
<1>8. /\ \A o \in 1 .. M : \A i \in 1 .. Len(D[o]) :
            \E n \in 1 .. N : \E k \in 1 .. R[n] : D[o][i] = ByteOf(n, k)
      /\ \A o \in 1 .. M : \A j \in 1 .. Len(D[o]) : \A i \in 1 .. j - 1 :
            D[o][i][1] = D[o][j][1] => D[o][i][2] < D[o][j][2]
      /\ \A o, p \in 1 .. M : \A i \in 1 .. Len(D[o]) : \A j \in 1 .. Len(D[p]) :
            o # p => D[o][i] # D[p][j]
      /\ \A n \in 1 .. N : \A k \in 1 .. R[n] :
            \E o \in 1 .. M : \E i \in 1 .. Len(D[o]) : D[o][i] = ByteOf(n, k)
  <2>1. ReadAndWritten(D, R, N, M)
    BY <1>3, <1>4
  <2> QED
    BY <2>1, Zenon DEF ReadAndWritten
<1>9. \A n \in 1 .. N : R[n] \in Nat /\ lengths[n] \in Nat /\ R[n] <= lengths[n]
  BY <1>2, <1>3 DEF HaveRead
<1>10. ASSUME NEW o \in 1 .. M, NEW i \in 1 .. Len(D[o])
       PROVE  \E n \in 1 .. N : \E k \in 1 .. lengths[n] : D[o][i] = ByteOf(n, k)
  <2>1. PICK n \in 1 .. N : \E k \in 1 .. R[n] : D[o][i] = ByteOf(n, k)
    BY <1>8
  <2>2. PICK k \in 1 .. R[n] : D[o][i] = ByteOf(n, k)
    BY <2>1
  <2>3. k \in 1 .. lengths[n]
    BY <1>9
  <2> QED
    BY <2>2, <2>3
<1>11. ASSUME NEW o \in 1 .. M, NEW i \in 1 .. Len(D[o]), NEW j \in 1 .. Len(D[o]), i < j,
              D[o][i][1] = D[o][j][1]
       PROVE  D[o][i][2] < D[o][j][2]
  <2>1. i \in 1 .. j - 1
    BY <1>11
  <2> QED
    BY <1>8, <1>11, <2>1
<1>12. ASSUME NEW o \in 1 .. M, NEW p \in 1 .. M, o # p
       PROVE  Range(outf[o].data) \cap Range(outf[p].data) = {}
  <2>1. Range(outf[o].data) = {D[o][i] : i \in 1 .. Len(D[o])}
    BY <1>5, <1>6 DEF Range
  <2>2. Range(outf[p].data) = {D[p][i] : i \in 1 .. Len(D[p])}
    BY <1>5, <1>6 DEF Range
  <2>3. \A i \in 1 .. Len(D[o]) : \A j \in 1 .. Len(D[p]) : D[o][i] # D[p][j]
    <3>1. \A x, y \in 1 .. M : \A i \in 1 .. Len(D[x]) : \A j \in 1 .. Len(D[y]) :
             x # y => D[x][i] # D[y][j]
      BY <1>8
    <3> QED
      BY ONLY o \in 1 .. M, p \in 1 .. M, <1>12, <3>1
  <2> QED
    BY <2>1, <2>2, <2>3
<1>13. ASSUME pc = "done", NEW n \in 1 .. N, NEW k \in 1 .. lengths[n]
       PROVE  \E o \in 1 .. M : ByteOf(n, k) \in Range(outf[o].data)
  <2>1. Len(inf) = 0
    BY <1>2, <1>13
  <2>2. R[n] = lengths[n]
    BY <1>3, <2>1 DEF HaveRead
  <2>3. PICK o \in 1 .. M : \E i \in 1 .. Len(D[o]) : D[o][i] = ByteOf(n, k)
    BY <1>8, <2>2
  <2>4. Range(outf[o].data) = {D[o][i] : i \in 1 .. Len(D[o])}
    BY <1>5, <1>6 DEF Range
  <2> QED
    BY <2>3, <2>4
<1>14. \A o \in DOMAIN outf : \A i \in DOMAIN outf[o].data :
          \E n \in 1 .. args.inputs : \E k \in 1 .. lengths[n] : outf[o].data[i] = ByteOf(n, k)
  BY <1>1, <1>5, <1>6, <1>10
<1>15. \A o \in DOMAIN outf : \A i, j \in DOMAIN outf[o].data :
          i < j /\ outf[o].data[i][1] = outf[o].data[j][1]
            => outf[o].data[i][2] < outf[o].data[j][2]
  BY ZenonT(30), <1>5, <1>6, <1>11
<1>16. pc = "done" => \A n \in 1 .. args.inputs : \A k \in 1 .. lengths[n] :
          \E o \in DOMAIN outf : ByteOf(n, k) \in Range(outf[o].data)
  BY <1>1, <1>6, <1>13
<1> QED
  BY <1>6, <1>7, <1>12, <1>14, <1>15, <1>16 DEF GathersAll


-----------------------------------------------------------------------------
(* What the outputs are.                                                   *)

LEMMA FirstBytesAre ==
    ASSUME NEW in \in Seq(Bytes), NEW k \in Nat, k <= Len(in), NEW d \in Seq(Bytes),
           Len(d) = k, \A i \in 1 .. k : d[i] = in[i]
    PROVE  d = FirstBytes(in, k) /\ (k = Len(in) => d = in)
<1>1. PICK t : t = SubSeq(in, 1, k)
  OBVIOUS
<1>2. t \in Seq(Bytes) /\ Len(t) = k /\ \A i \in 1 .. k : t[i] = in[i]
  <2>1. k \in Int /\ 1 \in Int /\ \A i \in 1 .. k : in[i] \in Bytes
    OBVIOUS
  <2>2. /\ t \in Seq(Bytes) /\ Len(t) = (IF 1 <= k THEN k - 1 + 1 ELSE 0)
        /\ \A i \in 1 .. k - 1 + 1 : t[i] = in[1 + i - 1]
    BY <1>1, <2>1, SubSeqProperties
  <2> QED
    BY <2>1, <2>2
<1>3. d = t
  BY <1>2
<1> QED
  BY <1>1, <1>3 DEF FirstBytes

LEMMA ForwardCopies ==
    ASSUME Usable, Single, ForwardOK, pc = "done"
    PROVE  Output = IF args.size < 0 THEN Input ELSE FirstBytes(Input, Least(args.size, Len(Input)))
<1>1. PICK d \in Seq(Bytes), p \in Nat, l \in Nat :
              d = Output /\ p = inf[1].pos /\ l = Len(Input)
  <2>1. outf[1].data \in Seq(Bytes) /\ inf[1].pos \in Nat /\ Len(Input) \in Nat
    BY InputData DEF OutFiles, InFiles
  <2> QED
    BY <2>1 DEF Output
<1>2. Len(d) = p /\ p <= l /\ \A k \in 1 .. p : d[k] = Input[k]
  BY <1>1 DEF ForwardOK, Output
<1>3. d = FirstBytes(Input, p) /\ (p = l => d = Input)
  BY <1>1, <1>2, InputData, FirstBytesAre
<1>4. PICK z \in Int, y \in Int : z = args.size /\ y = local.size
  BY DEF Usable, ArgTypes, Single, LocalTypes
<1>5. (z < 0 => y < 0) /\ (z >= 0 => y = z - p /\ y >= 0) /\ (p = l \/ y = 0)
  BY <1>1, <1>4 DEF ForwardOK
<1>6. IF z < 0 THEN p = l ELSE p = Least(z, l)
  BY <1>2, <1>5 DEF Least
<1> QED
  BY <1>1, <1>3, <1>4, <1>6

LEMMA ReorderCopies ==
    ASSUME Usable, Single, ReorderOK, pc = "done", local.size <= Len(Input)
    PROVE  Output = FirstBytes(Input, local.size)
<1>1. PICK d \in Seq(Bytes), m \in Nat, l \in Nat, B \in Nat \ {0} :
              d = Output /\ m = Len(d) /\ l = Len(Input) /\ B = BlockSize
  <2>1. outf[1].data \in Seq(Bytes) /\ Len(Input) \in Nat
    BY InputData DEF OutFiles
  <2> QED
    BY <2>1, BlockSizeIs DEF Output
<1>2. PICK n \in Nat : /\ local.size = n * B /\ Placed(d, Left, n, B) /\ local.blockpos = << >>
  BY <1>1 DEF ReorderOK, Output
<1>3. Left = {}
  <2>1. Len(local.blockpos) = 0
    BY <1>2
  <2> QED
    BY <2>1 DEF Left
<1>4. PICK z \in Nat : z = n * B /\ z = local.size /\ z <= l
  BY <1>1, <1>2
<1>5. m <= z /\ \A k \in 1 .. m : d[k] = Input[k]
  BY <1>1, <1>2, <1>3, <1>4 DEF Placed
<1>6. m = z
  <2>1. CASE n = 0
    BY <1>4, <1>5, <2>1
  <2>2. CASE n # 0
    <3>1. n - 1 \in 0 .. n - 1 /\ (n - 1) + 1 = n
      BY <2>2
    <3>2. ((n - 1) + 1) * B <= m
      BY <1>1, <1>2, <1>3, <3>1 DEF Placed
    <3> QED
      BY <1>4, <1>5, <3>1, <3>2
  <2> QED
    BY <2>1, <2>2
<1>7. d = FirstBytes(Input, m)
  <2>1. Input \in Seq(Bytes) /\ m <= Len(Input) /\ Len(d) = m
    BY <1>1, <1>4, <1>6, InputData
  <2>2. \A i \in 1 .. m : d[i] = Input[i]
    BY <1>5
  <2> QED
    BY ONLY d \in Seq(Bytes), m \in Nat, <2>1, <2>2, FirstBytesAre
<1>8. Output = FirstBytes(Input, m)
  BY <1>1, <1>7
<1>9. m = local.size
  BY <1>4, <1>6
<1> QED
  BY <1>8, <1>9

LEMMA BackwardReverses ==
    ASSUME Usable, Single, BackwardOK
    PROVE  /\ Len(Output) <= GoesBack /\ (pc = "done" => Len(Output) = GoesBack)
           /\ \A j \in 1 .. Len(Output) : Output[j] = BackByte(Len(Input), GoesBack, j)
<1>1. Len(Output) \in Nat /\ local.size \in Nat
  BY InputData DEF OutFiles, BackwardOK, Output
<1>2. local.size + Len(Output) = GoesBack
  BY DEF BackwardOK, Output
<1> QED
  BY <1>1, <1>2 DEF BackwardOK, Output

-----------------------------------------------------------------------------
(* The programs.                                                           *)

OneFileOK ==
    /\ Single
    /\ Program \in {"cat", "block", "randblock"} => ForwardOK
    /\ Program = "reverse" => BackwardOK
    /\ Program \in {"stride", "ostride"} => StridedOK
    /\ Program = "reorder" => ReorderOK

CatOK ==
    /\ command \in Commands /\ pc \in {"parse", "open", "copy", "done", "failed"}
    /\ pc \in {"open", "copy", "done"} => Usable
    /\ pc \in {"copy", "done"} => IF Program = "gather" THEN GatherOK ELSE OneFileOK

LEMMA SameArguments ==
    ASSUME Usable, UNCHANGED <<command, args>>
    PROVE  Usable' /\ Program' = Program
BY DEF Usable, Program

LEMMA OpenKeeps ==
    ASSUME CatOK, Open
    PROVE  CatOK'
<1>1. Usable /\ command' = command /\ args' = args /\ pc' \in {"copy", "failed"}
  BY DEF CatOK, Open
<1>2. Usable' /\ Program' = Program
  BY <1>1, SameArguments
<1>3. ASSUME pc' = "copy", Program # "gather" PROVE OneFileOK'
  <2>1. PICK f : Begun(f) /\ Single'
    BY <1>1, <1>3, OpensOne
  <2> QED
    BY <1>1, <1>2, <2>1, ForwardBegins, BackwardBegins, StridedBegins, ReorderBegins DEF OneFileOK
<1>4. ASSUME pc' = "copy", Program = "gather" PROVE GatherOK'
  BY <1>1, <1>4, GatherBegins
<1> QED
  BY <1>1, <1>2, <1>3, <1>4 DEF CatOK

LEMMA LoopKeeps ==
    ASSUME CatOK, Forward \/ Backward \/ Strided \/ Reorder \/ Gather
    PROVE  CatOK'
<1>1. pc = "copy" /\ Usable /\ (IF Program = "gather" THEN GatherOK ELSE OneFileOK)
  BY DEF CatOK, Forward, Backward, Strided, Reorder, Gather, Running
<1>2. ASSUME UNCHANGED <<command, args>>, pc' \in {"copy", "done"},
             IF Program = "gather" THEN GatherOK' ELSE OneFileOK'
      PROVE  CatOK'
  BY <1>1, <1>2, SameArguments DEF CatOK
<1>3. CASE Forward
  <2>1. Program \in {"cat", "block", "randblock"}
    BY <1>3 DEF Forward, Running
  <2>2. Single' /\ ForwardOK' /\ pc' \in {"copy", "done"} /\ UNCHANGED <<command, args>>
    BY <1>1, <1>3, <2>1, ForwardKeeps DEF OneFileOK
  <2>3. Program' = Program
    BY <2>2 DEF Program
  <2>4. OneFileOK' /\ Program # "gather"
    BY <2>1, <2>2, <2>3 DEF OneFileOK
  <2> QED
    BY <1>2, <2>2, <2>4
<1>4. CASE Backward
  <2>1. Program = "reverse"
    BY <1>4 DEF Backward, Running
  <2>2. Single' /\ BackwardOK' /\ pc' \in {"copy", "done"} /\ UNCHANGED <<command, args>>
    BY <1>1, <1>4, <2>1, BackwardKeeps DEF OneFileOK
  <2>3. Program' = Program
    BY <2>2 DEF Program
  <2>4. OneFileOK' /\ Program # "gather"
    BY <2>1, <2>2, <2>3 DEF OneFileOK
  <2> QED
    BY <1>2, <2>2, <2>4
<1>5. CASE Strided
  <2>1. Program \in {"stride", "ostride"}
    BY <1>5 DEF Strided, Running
  <2>2. Single' /\ StridedOK' /\ pc' \in {"copy", "done"} /\ UNCHANGED <<command, args>>
    BY <1>1, <1>5, <2>1, StridedKeeps DEF OneFileOK
  <2>3. Program' = Program
    BY <2>2 DEF Program
  <2>4. OneFileOK' /\ Program # "gather"
    BY <2>1, <2>2, <2>3 DEF OneFileOK
  <2> QED
    BY <1>2, <2>2, <2>4
<1>6. CASE Reorder
  <2>1. Program = "reorder"
    BY <1>6 DEF Reorder, Running
  <2>2. Single' /\ ReorderOK' /\ pc' \in {"copy", "done"} /\ UNCHANGED <<command, args>>
    BY <1>1, <1>6, <2>1, ReorderKeeps DEF OneFileOK
  <2>3. Program' = Program
    BY <2>2 DEF Program
  <2>4. OneFileOK' /\ Program # "gather"
    BY <2>1, <2>2, <2>3 DEF OneFileOK
  <2> QED
    BY <1>2, <2>2, <2>4
<1>7. CASE Gather
  <2>1. Program = "gather"
    BY <1>7 DEF Gather, Running
  <2>2. GatherOK' /\ pc' \in {"copy", "done"} /\ UNCHANGED <<command, args>>
    BY <1>1, <1>7, <2>1, GatherKeeps
  <2> QED
    BY <1>2, <2>1, <2>2
<1> QED
  BY <1>3, <1>4, <1>5, <1>6, <1>7

LEMMA StutterKeeps ==
    ASSUME CatOK, UNCHANGED cvars
    PROVE  CatOK'
<1>1. /\ command' = command /\ args' = args /\ lengths' = lengths /\ inf' = inf /\ outf' = outf
      /\ local' = local /\ turns' = turns /\ pc' = pc
  BY DEF cvars
<1>2. Program' = Program /\ BlockSize' = BlockSize /\ Input' = Input /\ Left' = Left
  BY <1>1 DEF Program, BlockSize, Input, Left
<1>3. Usable => Usable'
  BY <1>1, <1>2 DEF Usable
<1>4. Single => Single'
  BY <1>1, <1>2 DEF Single
<1>5. ForwardOK => ForwardOK'
  BY <1>1, <1>2 DEF ForwardOK
<1>6. BackwardOK => BackwardOK'
  BY <1>1, <1>2 DEF BackwardOK, GoesBack
<1>7. \A c, r, Q : Strides(c, r, Q) => Strides(c, r, Q)'
  BY <1>1, <1>2 DEF Strides
<1>8. StridedOK => StridedOK'
  BY <1>1, <1>2, <1>7 DEF StridedOK, InStrides
<1>9. ReorderOK => ReorderOK'
  <2>1. SUFFICES ASSUME ReorderOK PROVE ReorderOK'
    OBVIOUS
  <2>2. PICK blocks \in Nat :
           /\ local.size = blocks * BlockSize
           /\ Left \in SUBSET (0 .. blocks - 1)
           /\ local.size <= Len(Input) => Placed(outf[1].data, Left, blocks, BlockSize)
           /\ pc = "done" /\ local.size <= Len(Input) => local.blockpos = << >>
    BY <2>1 DEF ReorderOK
  <2>3. /\ (local.size = blocks * BlockSize)'
        /\ (Left \in SUBSET (0 .. blocks - 1))'
        /\ (pc = "done" /\ local.size <= Len(Input) => local.blockpos = << >>)'
    BY <1>1, <1>2, <2>2
  <2>4. (local.size <= Len(Input) => Placed(outf[1].data, Left, blocks, BlockSize))'
    BY <1>1, <1>2, <2>2 DEF Placed
  <2> QED
    BY <2>3, <2>4 DEF ReorderOK
<1>10. GatherOK => GatherOK'
  BY <1>1 DEF GatherOK
<1>11. OneFileOK => OneFileOK'
  BY <1>2, <1>4, <1>5, <1>6, <1>8, <1>9 DEF OneFileOK
<1> QED
  BY <1>1, <1>2, <1>3, <1>10, <1>11 DEF CatOK

LEMMA ParseKeeps ==
    ASSUME CatOK, ParseArguments
    PROVE  CatOK'
<1>1. command \in Commands /\ command' = command /\ pc' \in {"failed", "open"}
  BY DEF CatOK, ParseArguments
<1>2. pc' = "open" => Usable'
  BY <1>1, ArgumentsAreUsable
<1> QED
  BY <1>1, <1>2 DEF CatOK

LEMMA CatIsOK == CSpec => []CatOK
<1>1. CInit => CatOK
  BY DEF CInit, CatOK
<1>2. CatOK /\ [CNext]_cvars => CatOK'
  <2> SUFFICES ASSUME CatOK, [CNext]_cvars PROVE CatOK'
    OBVIOUS
  <2>1. CASE ParseArguments
    BY <2>1, ParseKeeps
  <2>2. CASE Open
    BY <2>2, OpenKeeps
  <2>3. CASE Forward \/ Backward \/ Strided \/ Reorder \/ Gather
    BY <2>3, LoopKeeps
  <2>4. CASE UNCHANGED cvars
    BY <2>4, StutterKeeps
  <2> QED
    BY <2>1, <2>2, <2>3, <2>4 DEF CNext
<1> QED
  BY <1>1, <1>2, PTL DEF CSpec

\* Each of the copying programs makes of its input what its name says: cat61, blockcat61 and
\* randblockcat61 copy it, and so does reordercat61, whatever the order of its blocks
\* (reordercat61.cc:5-7), unless -s takes it beyond the end; reverse61 writes it backwards,
\* from its end or from where -s says, and EOF bytes for the places beyond the end
\* (reverse61.cc:29-34); stridecat61 and ostridecat61 lose no byte and copy none twice, and
\* visit the places of the file in the order of strides (stridecat61.cc:5-9, 28-48), unless
\* stridecat61 is given -s.  For every length of the input, block, stride and other -s.
THEOREM CatKeepsItsNames == CSpec => []OutputsAsNamed
<1>1. CatOK => OutputsAsNamed
  <2> SUFFICES ASSUME CatOK PROVE OutputsAsNamed
    OBVIOUS
  <2>1. pc \in {"copy", "done"} => Usable /\ (Program # "gather" => OneFileOK)
    BY DEF CatOK
  <2>2. CopiesInput
    <3>1. ASSUME Done({"cat", "block", "randblock"})
          PROVE  Output = IF args.size < 0 THEN Input
                          ELSE FirstBytes(Input, Least(args.size, Len(Input)))
      <4>1. Usable /\ Single /\ ForwardOK /\ pc = "done"
        BY <2>1, <3>1 DEF Done, OneFileOK
      <4> QED
        BY <4>1, ForwardCopies
    <3>2. ASSUME Done({"reorder"}), local.size <= Len(Input)
          PROVE  Output = FirstBytes(Input, local.size)
      <4>1. Usable /\ Single /\ ReorderOK /\ pc = "done"
        BY <2>1, <3>2 DEF Done, OneFileOK
      <4> QED
        BY <3>2, <4>1, ReorderCopies
    <3> QED
      BY <3>1, <3>2 DEF CopiesInput
  <2>3. ReversesInput
    <3>1. CASE Program = "reverse" /\ pc \in {"copy", "done"}
      <4>1. Usable /\ Single /\ BackwardOK
        BY <2>1, <3>1 DEF OneFileOK
      <4>2. /\ Len(Output) <= GoesBack /\ (pc = "done" => Len(Output) = GoesBack)
            /\ \A j \in 1 .. Len(Output) : Output[j] = BackByte(Len(Input), GoesBack, j)
        BY <4>1, BackwardReverses
      <4> QED
        BY <4>2 DEF ReversesInput, GoesBack, BackByte
    <3>2. CASE ~(Program = "reverse" /\ pc \in {"copy", "done"})
      BY <3>2 DEF ReversesInput
    <3> QED
      BY <3>1, <3>2
  <2>4. ShufflesInput
    <3>1. CASE Done({"stride", "ostride"})
      <4>1. Usable /\ Single /\ StridedOK
        BY <2>1, <3>1 DEF Done, OneFileOK
      <4> QED
        BY <4>1, ShufflesAll
    <3>2. CASE ~Done({"stride", "ostride"})
      BY <3>2 DEF ShufflesInput
    <3> QED
      BY <3>1, <3>2
  <2> QED
    BY <2>2, <2>3, <2>4 DEF OutputsAsNamed
<1> QED
  BY <1>1, CatIsOK, PTL

\* scattergather61 loses no byte of any input, copies none twice and makes none up, keeps
\* each input's order in every output, and gives its inputs turns in rounds, for every
\* number of files and every length (scattergather61.cc:38-74).
THEOREM GatherKeepsAll == CSpec => []GathersAll
<1>1. CatOK => GathersAll
  <2>1. CASE Program = "gather" /\ pc \in {"copy", "done"}
    BY <2>1, GathersEverything DEF CatOK
  <2>2. CASE ~(Program = "gather" /\ pc \in {"copy", "done"})
    BY <2>2 DEF GathersAll
  <2> QED
    BY <2>1, <2>2
<1> QED
  BY <1>1, CatIsOK, PTL

=============================================================================
