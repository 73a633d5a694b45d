---------------------------- MODULE PipeExchange ----------------------------
(***************************************************************************)
(* pset3/pipeexchange61.cc over the io61 of pset3/io61.cc: main() forks a   *)
(* requester and a responder joined by two pipes.  For every phase the      *)
(* requester writes a whole batch of requests and then reads the replies;   *)
(* the responder answers one request at a time.  main() polls for the two   *)
(* deaths, and after five seconds kills what is left.                       *)
(*                                                                         *)
(* io61 reads and writes one byte per system call, so a step moves one      *)
(* byte, or blocks.  The sizes of the messages are the constant Phases; the *)
(* pipes' capacities, which belong to the operating system, are chosen in   *)
(* the initial state.  A message is its identifier and then zeroes.         *)
(***************************************************************************)
EXTENDS Integers, Sequences

CONSTANTS Phases,      \* the table messages[]: [batch, request, response]
          Capacities   \* the capacities a pipe may have, in bytes

ASSUME PhasesAssumption ==
  /\ Phases \in Seq([batch : Nat \ {0}, request : Nat \ {0}, response : Nat \ {0}])
  /\ Phases # <<>>
ASSUME CapacityAssumption == Capacities \subseteq Nat \ {0}

VARIABLES
  room,        \* room[c] : the capacity of pipe c
  pipe,        \* pipe[c] : the bytes in pipe c
  requester,   \* the first child
  responder,   \* the second child
  parent,      \* "fork1", "fork2", "poll" or "exited"
  reaped,      \* the children whose death waitpid() has told of (p1, p2 = -1)
  status       \* main()'s exit status, -1 before there is one
pvars == <<room, pipe, requester, responder, parent, reaped, status>>

Pipes == {"requests", "responses"}
Ended == {"done", "aborted", "killed"}
Lives(child) == child.pc \notin Ended \cup {"unborn"}

NumPhases == Len(Phases)
\* id : the identifier being sent; buf : the first byte last read; replies : responseid.
Unborn == [pc |-> "unborn", phase |-> 1, i |-> 0, k |-> 0, id |-> 0, buf |-> 0, replies |-> 0]
Message(child) == Phases[child.phase]

PInit ==
  /\ room \in [Pipes -> Capacities]
  /\ pipe = [c \in Pipes |-> <<>>]
  /\ requester = Unborn /\ responder = Unborn
  /\ parent = "fork1" /\ reaped = {} /\ status = -1

-----------------------------------------------------------------------------
(* The ends of the pipes.  The parent never closes any of its four; a child  *)
(* closes the two it does not use as its first act.                          *)

\* A mutant: the children close none of the ends that are not theirs.
HasWriter_NotClosed(c) == parent # "exited" \/ Lives(requester) \/ Lives(responder)

HasReader(c) == \/ parent # "exited"
                \/ requester.pc = "start" \/ responder.pc = "start"
                \/ Lives(IF c = "requests" THEN responder ELSE requester)
HasWriter(c) == \/ parent # "exited"
                \/ requester.pc = "start" \/ responder.pc = "start"
                \/ Lives(IF c = "requests" THEN requester ELSE responder)

CanWrite(c) == HasReader(c) /\ Len(pipe[c]) < room[c]
CanRead(c) == pipe[c] # <<>>

\* The byte at place k of a message with this identifier.
Byte(id, k) == IF k = 0 THEN id ELSE 0
Put(c, b) == pipe' = [pipe EXCEPT ![c] = Append(@, b)]
Consume(c) == pipe' = [pipe EXCEPT ![c] = Tail(@)]

-----------------------------------------------------------------------------
(* The requester.                                                          *)

NextByte(child) == [child EXCEPT !.k = @ + 1]
NextMessage(child) == [child EXCEPT !.k = 0, !.i = @ + 1]
NextPhase(child, pc) ==
  [child EXCEPT !.k = 0, !.i = 0, !.phase = IF @ = NumPhases THEN @ ELSE @ + 1,
                !.pc = IF child.phase = NumPhases THEN "done" ELSE pc]

\* A mutant: the last identifier of a batch is used twice.
Requested_Twice(child) ==
  IF child.i + 1 < Message(child).batch
  THEN [NextMessage(child) EXCEPT !.id = @ + 1]
  ELSE [child EXCEPT !.k = 0, !.i = 0, !.pc = "read"]

\* The last byte of a request: on to the next of the batch, or to the replies.
Requested(child) ==
  IF child.i + 1 < Message(child).batch
  THEN [NextMessage(child) EXCEPT !.id = @ + 1]
  ELSE [child EXCEPT !.k = 0, !.i = 0, !.id = @ + 1, !.pc = "read"]

RequesterWrites ==
  /\ requester.pc = "write"
  /\ CanWrite("requests")
  /\ Put("requests", Byte(requester.id, requester.k))
  /\ requester' = IF requester.k + 1 < Message(requester).request
                  THEN NextByte(requester) ELSE Requested(requester)
  /\ UNCHANGED <<room, responder, parent, reaped, status>>

\* The last byte of a reply: assert(id == responseid).
Replied(child) ==
  IF child.buf # child.replies THEN [child EXCEPT !.pc = "aborted"]
  ELSE [(IF child.i + 1 < Message(child).batch THEN NextMessage(child)
                                               ELSE NextPhase(child, "write"))
          EXCEPT !.replies = @ + 1]

\* The first bytes of a message, its identifier, replace the one in the buffer.
Received(child, c) == IF child.k = 0 THEN [child EXCEPT !.buf = Head(pipe[c])] ELSE child

RequesterReads ==
  /\ requester.pc = "read"
  /\ CanRead("responses")
  /\ Consume("responses")
  /\ LET r == Received(requester, "responses")
     IN requester' = IF r.k + 1 < Message(r).response THEN NextByte(r) ELSE Replied(r)
  /\ UNCHANGED <<room, responder, parent, reaped, status>>

-----------------------------------------------------------------------------
(* The responder, which sends a request's own buffer back.                 *)

ResponderReads ==
  /\ responder.pc = "read"
  /\ CanRead("requests")
  /\ Consume("requests")
  /\ LET r == Received(responder, "requests")
     IN responder' = IF r.k + 1 < Message(r).request
                     THEN NextByte(r) ELSE [r EXCEPT !.k = 0, !.pc = "write"]
  /\ UNCHANGED <<room, requester, parent, reaped, status>>

\* A mutant: the responder leaves a phase one message early.
Answered_Early(child) ==
  IF child.i + 2 < Message(child).batch
  THEN [NextMessage(child) EXCEPT !.pc = "read"]
  ELSE NextPhase(child, "read")

Answered(child) ==
  IF child.i + 1 < Message(child).batch
  THEN [NextMessage(child) EXCEPT !.pc = "read"]
  ELSE NextPhase(child, "read")

ResponderWrites ==
  /\ responder.pc = "write"
  /\ CanWrite("responses")
  /\ Put("responses", Byte(responder.buf, responder.k))
  /\ responder' = IF responder.k + 1 < Message(responder).response
                  THEN NextByte(responder) ELSE Answered(responder)
  /\ UNCHANGED <<room, requester, parent, reaped, status>>

-----------------------------------------------------------------------------
(* What both children do: begin, and die when the other end has gone.      *)

Child(c) == IF c = 1 THEN requester ELSE responder
SetPc(c, pc) ==
  IF c = 1 THEN requester' = [requester EXCEPT !.pc = pc] /\ UNCHANGED responder
           ELSE responder' = [responder EXCEPT !.pc = pc] /\ UNCHANGED requester
WritesTo(c) == IF c = 1 THEN "requests" ELSE "responses"
ReadsFrom(c) == IF c = 1 THEN "responses" ELSE "requests"

\* The child closes the ends that are not its own.
Begin(c) ==
  /\ Child(c).pc = "start"
  /\ SetPc(c, IF c = 1 THEN "write" ELSE "read")
  /\ UNCHANGED <<room, pipe, parent, reaped, status>>

\* A write to a pipe nobody reads: SIGPIPE.
BrokenPipe(c) ==
  /\ Child(c).pc = "write" /\ ~HasReader(WritesTo(c))
  /\ SetPc(c, "killed")
  /\ UNCHANGED <<room, pipe, parent, reaped, status>>

\* The end of an empty pipe nobody writes: a short count, a failed assertion.
EndOfPipe(c) ==
  /\ Child(c).pc = "read" /\ ~CanRead(ReadsFrom(c)) /\ ~HasWriter(ReadsFrom(c))
  /\ SetPc(c, "aborted")
  /\ UNCHANGED <<room, pipe, parent, reaped, status>>

-----------------------------------------------------------------------------
(* The parent.                                                             *)

Fork(c) ==
  /\ parent = IF c = 1 THEN "fork1" ELSE "fork2"
  /\ SetPc(c, "start")
  /\ parent' = IF c = 1 THEN "fork2" ELSE "poll"
  /\ UNCHANGED <<room, pipe, reaped, status>>

\* fork() or pipe() fails: exit(1), with the requester perhaps left running.
ForkFails ==
  /\ parent \in {"fork1", "fork2"}
  /\ parent' = "exited" /\ status' = 1
  /\ UNCHANGED <<room, pipe, requester, responder, reaped>>

\* A mutant: one death is enough.
ParentExits_OneDeath == parent' = "exited" /\ status' = IF reaped # {} THEN 0 ELSE 1

ParentExits == parent' = "exited" /\ status' = IF reaped = {1, 2} THEN 0 ELSE 1

\* waitpid(WNOHANG) finds a dead child.
Reap(c) ==
  /\ parent = "poll" /\ c \notin reaped
  /\ Child(c).pc \in Ended
  /\ reaped' = reaped \cup {c}
  /\ UNCHANGED <<room, pipe, requester, responder, parent, status>>

BothDead ==
  /\ parent = "poll" /\ reaped = {1, 2}
  /\ ParentExits
  /\ UNCHANGED <<room, pipe, requester, responder, reaped>>

Killed(child) == IF child.pc \in Ended THEN child ELSE [child EXCEPT !.pc = "killed"]

\* The five seconds are over: SIGKILL to those not reaped, and exit(1).
GiveUp ==
  /\ parent = "poll" /\ reaped # {1, 2}
  /\ requester' = IF 1 \in reaped THEN requester ELSE Killed(requester)
  /\ responder' = IF 2 \in reaped THEN responder ELSE Killed(responder)
  /\ ParentExits
  /\ UNCHANGED <<room, pipe, reaped>>

-----------------------------------------------------------------------------
ChildStep(c) ==
  \/ Begin(c) \/ BrokenPipe(c) \/ EndOfPipe(c)
  \/ c = 1 /\ (RequesterWrites \/ RequesterReads)
  \/ c = 2 /\ (ResponderReads \/ ResponderWrites)
Polls == BothDead \/ GiveUp \/ \E c \in {1, 2} : Reap(c)
Forks == ForkFails \/ \E c \in {1, 2} : Fork(c)

PNext == Forks \/ Polls \/ \E c \in {1, 2} : ChildStep(c)

PSpec == PInit /\ [][PNext]_pvars

\* Every process gets the processor, and the five seconds pass.
PFairness == /\ WF_pvars(Forks) /\ WF_pvars(Polls)
             /\ WF_pvars(ChildStep(1)) /\ WF_pvars(ChildStep(2))
-----------------------------------------------------------------------------
(* Properties.                                                             *)

\* The assertions of both children (pipeexchange61.cc:73, 79, 81, 104): replies
\* come back whole and in the order of the requests, for any interleaving.
\* Only a child whose partner was never forked may meet the end of a pipe.
AssertionsHold ==
  \A child \in {requester, responder} :
    child.pc = "aborted" => responder.pc = "unborn" /\ parent = "exited"

\* Nobody can move, and nobody has died: each waits for the other to read.
Stuck ==
  /\ \A c \in {1, 2} : Child(c).pc \in {"read", "write"}
  /\ \A c \in {1, 2} : IF Child(c).pc = "write" THEN ~CanWrite(WritesTo(c))
                                                ELSE ~CanRead(ReadsFrom(c))

\* What a phase needs of the pipes: the responder gets rid of the replies that
\* the response pipe holds, plus the request it then sits on; the rest of the
\* batch must fit in the request pipe.
FitsPipes(m) ==
  (room["responses"] \div m.response + 1) * m.request + room["requests"]
     >= m.batch * m.request

\* The exchange deadlocks only in a phase whose batch is beyond both pipes
\* (pipeexchange61.cc:25-31).
StuckOnlyWhenTooLarge == Stuck => ~FitsPipes(Message(requester))

\* main() exits with status 0 only when both children have finished, every reply
\* has been read and the pipes are empty; and never when a batch was too large:
\* then the deadlock is certain, and the five seconds must end it.
ZeroMeansComplete ==
  status = 0 => /\ requester.pc = "done" /\ responder.pc = "done"
                /\ requester.replies = requester.id
                /\ \A c \in Pipes : pipe[c] = <<>>
                /\ \A n \in 1..NumPhases : FitsPipes(Phases[n])

\* Once it has called fork(), main() ends and no child outlives it for ever: neither a
\* deadlock nor a fork() that fails half way leaves a process behind
\* (pipeexchange61.cc:146-173).
NobodyLeftBehind ==
  parent # "fork1" ~> [](parent = "exited" /\ ~Lives(requester) /\ ~Lives(responder))
=============================================================================
