---------------------------- MODULE SimPongProofs ----------------------------
(* The simulator for any board, any number of balls and sticky cells and any *)
(* interleaving of its threads: no ball is ever stored twice, and without    *)
(* threads the calls of move() are those of the board.                       *)
EXTENDS SimPong, FiniteSetTheorems, TLAPS

\* Every variable has its type.
SimTypeOK ==
    /\ single \in BOOLEAN /\ nsticky \in 0 .. NSticky /\ phase \in Phases
    /\ pc \in [Balls -> Steps] /\ turn \in [Balls -> Balls]
    /\ from \in [Balls -> Int \X Int] /\ to \in [Balls -> Int \X Int]
    /\ width \in Int /\ height \in Int
    /\ sticky \subseteq Cells /\ IsFiniteSet(sticky)
    /\ ballAt \in [Cells -> Balls \cup {NoBall}]
    /\ x \in [Balls -> Int] /\ y \in [Balls -> Int]
    /\ dx \in [Balls -> Int] /\ dy \in [Balls -> Int]

\* The balls are numbered as they are drawn, and only those drawn are stored.
Drawn ==
    /\ \E k \in 0 .. NBalls : balls = 1 .. k
    /\ \A c \in Cells : ballAt[c] # NoBall => ballAt[c] \in balls
    /\ phase \notin {"sticky", "balls"} => balls = Balls

\* Each thread moves a ball of its own, or there is only one thread.
OwnTurn ==
    /\ phase \in {"sticky", "balls"} => started = {}
    /\ \A t \in Balls \ started : pc[t] = "check"
    /\ single => started \subseteq {1}
    /\ ~single => \A t \in Balls : turn[t] = t

\* A ball that is being moved can only be where its call began, and nowhere
\* once it has left.
Moving == {"edgeX", "edgeY", "next", "meetX", "meetY", "reverse", "advance", "leave"}
AtMostFrom ==
    \A t \in Balls :
        /\ pc[t] \in Moving => \A c \in Cells : ballAt[c] = turn[t] => c = from[t]
        /\ pc[t] = "enter" => \A c \in Cells : ballAt[c] # turn[t]

\* The strengthening of NoDoubles that every step preserves.
SimInv == SimTypeOK /\ Drawn /\ OwnTurn /\ AtMostFrom /\ NoDoubles

\* No ball is the null pointer.
LEMMA BallsExist == \A b \in Balls : b # NoBall /\ b \in Nat
BY BoardAssumption DEF Balls, NoBall

\* No two threads in the middle of a call move the same ball.
LEMMA TurnsDiffer ==
    ASSUME SimTypeOK, OwnTurn, NEW t \in Balls, NEW u \in Balls, t # u,
           pc[t] # "check", pc[u] # "check"
    PROVE  turn[t] # turn[u]
BY DEF OwnTurn

\* A step that leaves the size alone leaves the cells alone.
LEMMA CellsStay ==
    ASSUME UNCHANGED size
    PROVE  Cells' = Cells /\ width' = width /\ height' = height
BY DEF size, Cells, Xs, Ys

\* The strengthened invariant holds at the start.
LEMMA SimInvInit == SInit => SimInv
<1> SUFFICES ASSUME SInit PROVE SimInv
  OBVIOUS
<1>1. PICK s \in Sizes : width = s[1] /\ height = s[2]
  BY DEF SInit, BoardInit
<1>2. width \in Int /\ height \in Int
  BY <1>1, BoardAssumption
<1>3. SimTypeOK
  BY <1>2, FS_EmptySet DEF SInit, BoardInit, SimTypeOK, Phases, Steps
<1>4. Drawn
  <2>1. balls = 1 .. 0 /\ 0 \in 0 .. NBalls
    BY BoardAssumption DEF SInit, BoardInit
  <2> QED BY <2>1 DEF SInit, BoardInit, Drawn
<1>5. OwnTurn /\ AtMostFrom /\ NoDoubles
  BY DEF SInit, BoardInit, OwnTurn, AtMostFrom, NoDoubles, Moving
<1> QED BY <1>3, <1>4, <1>5 DEF SimInv

\* The ball main() creates next is one it has not created.
LEMMA NextDrawn ==
    ASSUME SimInv, NEW b, b = Cardinality(balls) + 1, b <= NBalls
    PROVE  /\ b \in Balls \ balls /\ b # NoBall
           /\ \E k \in 0 .. NBalls : balls \cup {b} = 1 .. k
<1>1. PICK k \in 0 .. NBalls : balls = 1 .. k
  BY DEF SimInv, Drawn
<1>2. b = k + 1
  <2>1. k \in Int /\ 0 <= k /\ 1 \in Int
    BY BoardAssumption
  <2>2. Cardinality(1 .. k) = k
    BY <2>1, FS_Interval
  <2> QED BY <1>1, <2>2
<1>3. b \in Balls /\ b \notin balls /\ b # NoBall /\ k + 1 \in 0 .. NBalls
  BY <1>1, <1>2, BoardAssumption DEF Balls, NoBall
<1>4. balls \cup {b} = 1 .. (k + 1)
  BY <1>1, <1>2
<1> QED BY <1>3, <1>4

\* Setting up keeps it: a new ball is stored where none was.
LEMMA SetUpKeeps ==
    ASSUME SimInv, SetUp \/ Redraw
    PROVE  SimInv'
<1>1. ASSUME NEW i \in Xs, NEW j \in Xs, DrawSticky(i, j) PROVE SimInv'
  <2>1. /\ <<i, j>> \in Cells /\ sticky' = sticky \cup {<<i, j>>}
        /\ UNCHANGED <<size, balls, ballAt, x, y, dx, dy, phase, threadVars>>
    BY <1>1 DEF DrawSticky, MakeSticky, EmptyType, OnBoard
  <2>2. Cells' = Cells /\ width' = width /\ height' = height
    BY <2>1, CellsStay
  <2>3. IsFiniteSet(sticky')
    BY <2>1, FS_AddElement DEF SimInv, SimTypeOK
  <2> QED BY <2>1, <2>2, <2>3 DEF SimInv, SimTypeOK, Drawn, OwnTurn, AtMostFrom, NoDoubles,
                                  threadVars, arguments
<1>2. CASE StickyDone
  <2>1. /\ phase = "sticky" /\ phase' = "balls" /\ UNCHANGED <<boardVars, threadVars>>
    BY <1>2 DEF StickyDone
  <2>2. Cells' = Cells /\ width' = width /\ height' = height
    BY <2>1, CellsStay DEF boardVars
  <2> QED BY <2>1, <2>2 DEF SimInv, SimTypeOK, Drawn, OwnTurn, AtMostFrom, NoDoubles,
                            boardVars, threadVars, arguments, Phases
<1>3. ASSUME NEW i \in Xs, NEW j \in Ys, NEW di \in {-1, 1}, NEW dj \in {-1, 1},
             DrawBall(i, j, di, dj)
      PROVE  SimInv'
  <2>1. PICK b : b = Cardinality(balls) + 1
    OBVIOUS
  <2>2. /\ phase = "balls" /\ b <= NBalls /\ ballAt[<<i, j>>] = NoBall /\ <<i, j>> \in Cells
        /\ balls' = balls \cup {b}
        /\ x' = [x EXCEPT ![b] = i] /\ y' = [y EXCEPT ![b] = j]
        /\ dx' = [dx EXCEPT ![b] = di] /\ dy' = [dy EXCEPT ![b] = dj]
        /\ ballAt' = [ballAt EXCEPT ![<<i, j>>] = b]
        /\ UNCHANGED <<size, sticky, phase, threadVars>>
    BY <1>3, <2>1 DEF DrawBall, Free, BallIn, OnBoard, Cells
  <2>3. b \in Balls \ balls /\ b # NoBall /\ \E k \in 0 .. NBalls : balls' = 1 .. k
    BY <2>1, <2>2, NextDrawn
  <2>4. Cells' = Cells /\ width' = width /\ height' = height
    BY <2>2, CellsStay
  <2>5. i \in Int /\ j \in Int
    BY DEF Xs, Ys
  <2>6. SimTypeOK'
    BY SMTT(30), <2>2, <2>3, <2>4, <2>5 DEF SimInv, SimTypeOK, threadVars, arguments
  <2>7. Drawn' /\ OwnTurn'
    BY <2>2, <2>3, <2>4 DEF SimInv, SimTypeOK, Drawn, OwnTurn, threadVars, arguments
  <2>8. \A c \in Cells : ballAt'[c] = IF c = <<i, j>> THEN b ELSE ballAt[c]
    BY <2>2 DEF SimInv, SimTypeOK
  <2>9. \A c \in Cells : ballAt[c] # b
    BY <2>3 DEF SimInv, Drawn
  <2>10. NoDoubles'
    BY <2>4, <2>8, <2>9 DEF SimInv, NoDoubles
  <2>11. AtMostFrom'
    BY <2>2 DEF SimInv, OwnTurn, AtMostFrom, Moving, threadVars, arguments
  <2> QED BY <2>6, <2>7, <2>10, <2>11 DEF SimInv
<1>4. CASE Spawn
  <2>1. /\ phase \in {"balls", "threads"} /\ phase' \in {"threads", "run"}
        /\ phase = "balls" => balls = Balls
        /\ started \subseteq started' /\ UNCHANGED <<boardVars, arguments, pc, turn, from, to>>
    BY <1>4 DEF Spawn
  <2>2. single => started' = started \cup {1}
    BY <1>4 DEF Spawn, Threads
  <2>3. Cells' = Cells /\ width' = width /\ height' = height
    BY <2>1, CellsStay DEF boardVars
  <2> QED BY <2>1, <2>2, <2>3 DEF SimInv, SimTypeOK, Drawn, OwnTurn, AtMostFrom, NoDoubles,
                                  boardVars, arguments, Phases
<1>5. CASE Redraw
  BY <1>5, CellsStay DEF Redraw, svars, SimInv, SimTypeOK, Drawn, OwnTurn, AtMostFrom, NoDoubles,
                         boardVars, threadVars, arguments
<1> QED BY <1>1, <1>2, <1>3, <1>4, <1>5 DEF SetUp

\* What is left to show of a step of one thread: the types of what it writes,
\* and where the ball of its call may be afterwards.
LEMMA StepKeeps ==
    ASSUME SimInv, NEW t \in Balls, t \in started, balls = Balls,
           UNCHANGED <<size, sticky, balls, arguments, started>>,
           phase' \in Phases \ {"sticky", "balls"},
           NEW s \in Steps, pc' = [pc EXCEPT ![t] = s],
           turn' \in [Balls -> Balls], ~single => turn'[t] = t,
           from' \in [Balls -> Int \X Int], to' \in [Balls -> Int \X Int],
           \A u \in Balls \ {t} : turn'[u] = turn[u] /\ from'[u] = from[u],
           x' \in [Balls -> Int], y' \in [Balls -> Int],
           dx' \in [Balls -> Int], dy' \in [Balls -> Int],
           ballAt' \in [Cells -> Balls \cup {NoBall}],
           \A c \in Cells : \/ ballAt'[c] \in {ballAt[c], NoBall}
                            \/ ballAt'[c] = turn[t] /\ pc[t] # "check",
           \A c, d \in Cells : ballAt'[c] = turn[t] /\ ballAt'[d] = turn[t] => c = d,
           s \in Moving => \A c \in Cells : ballAt'[c] = turn'[t] => c = from'[t],
           s = "enter" => \A c \in Cells : ballAt'[c] # turn'[t]
    PROVE  SimInv'
<1>1. Cells' = Cells /\ width' = width /\ height' = height
  BY CellsStay
<1>2. SimTypeOK'
  BY <1>1 DEF SimInv, SimTypeOK, arguments
<1>3. Drawn'
  BY <1>1 DEF SimInv, Drawn, NoBall, Balls
<1>4. OwnTurn'
  BY DEF SimInv, SimTypeOK, OwnTurn, arguments
<1>5. NoDoubles'
  <2> SUFFICES ASSUME NEW c \in Cells, NEW d \in Cells, ballAt'[c] # NoBall, ballAt'[c] = ballAt'[d]
               PROVE  c = d
    BY <1>1 DEF NoDoubles
  <2>1. CASE ballAt'[c] = turn[t]
    BY <2>1
  <2>2. CASE ballAt'[c] # turn[t]
    <3>1. ballAt'[c] = ballAt[c] /\ ballAt'[d] = ballAt[d]
      BY <2>2
    <3>2. ballAt[c] # NoBall /\ ballAt[c] = ballAt[d]
      BY <3>1
    <3> QED BY <3>2 DEF SimInv, NoDoubles
  <2> QED BY <2>1, <2>2
<1>6. pc \in [Balls -> Steps] /\ turn \in [Balls -> Balls]
  BY DEF SimInv, SimTypeOK
<1>7. AtMostFrom'
  <2> SUFFICES ASSUME NEW u \in Balls
               PROVE  /\ pc'[u] \in Moving => \A c \in Cells : ballAt'[c] = turn'[u] => c = from'[u]
                      /\ pc'[u] = "enter" => \A c \in Cells : ballAt'[c] # turn'[u]
    BY <1>1 DEF AtMostFrom
  <2>1. pc'[t] = s
    BY DEF SimInv, SimTypeOK
  <2>2. CASE u = t
    BY <2>1, <2>2
  <2>3. CASE u # t
    <3>1. /\ pc'[u] = pc[u] /\ turn'[u] = turn[u] /\ from'[u] = from[u]
          /\ turn[u] \in Balls /\ turn[u] # NoBall
      BY <1>6, <2>3, BallsExist
    <3>2. ASSUME pc[u] # "check", NEW c \in Cells, ballAt'[c] = turn[u]
          PROVE  ballAt[c] = turn[u]
      <4>1. pc[t] # "check" => turn[t] # turn[u]
        BY <2>3, <3>2, TurnsDiffer DEF SimInv
      <4> QED BY <3>1, <3>2, <4>1
    <3>3. "check" \notin Moving \cup {"enter"}
      BY DEF Moving
    <3> QED BY <3>1, <3>2, <3>3 DEF SimInv, AtMostFrom
  <2> QED BY <2>2, <2>3
<1> QED BY <1>2, <1>3, <1>4, <1>5, <1>7 DEF SimInv

\* The ball after this one, for a loop over all of them.
LEMMA NextBallExists ==
    ASSUME SimTypeOK, NEW t \in Balls
    PROVE  NextBall(t) \in Balls
<1>1. turn[t] \in Balls /\ turn[t] \in Nat /\ NBalls \in Nat /\ NBalls >= 1
  BY BoardAssumption, BallsExist DEF SimTypeOK
<1>2. turn[t] % NBalls \in 0 .. NBalls - 1
  BY <1>1
<1>3. (turn[t] % NBalls) + 1 \in Balls
  BY <1>1, <1>2 DEF Balls
<1> QED BY <1>1, <1>3 DEF NextBall

\* The state a thread's step starts from.
InCall(t) ==
    /\ t \in started /\ phase \in {"threads", "run"} /\ balls = Balls
    /\ turn[t] \in Balls /\ turn[t] # NoBall
    /\ \A c, d \in Cells : ballAt[c] = turn[t] /\ ballAt[d] = turn[t] => c = d
    /\ pc[t] \in Moving => \A c \in Cells : ballAt[c] = turn[t] => c = from[t]
    /\ pc[t] = "enter" => \A c \in Cells : ballAt[c] # turn[t]

\* Every step of a thread starts there.
LEMMA StepStarts ==
    ASSUME SimInv, NEW t \in Balls, ThreadStep(t)
    PROVE  InCall(t)
<1>1. t \in started /\ phase \in {"threads", "run"}
  BY DEF ThreadStep, Check, EdgeX, EdgeY, Choose, MeetX, MeetY, Meet, TurnBack, Step, Leave,
         Enter, Stick, At
<1>2. balls = Balls
  BY <1>1 DEF SimInv, Drawn
<1>3. turn[t] \in Balls /\ turn[t] # NoBall
  BY BallsExist DEF SimInv, SimTypeOK
<1>4. \A c, d \in Cells : ballAt[c] = turn[t] /\ ballAt[d] = turn[t] => c = d
  BY <1>3 DEF SimInv, NoDoubles
<1> QED BY <1>1, <1>2, <1>3, <1>4 DEF SimInv, AtMostFrom, InCall

\* A step in the middle of a call that leaves the cells alone, and one that
\* ends the program.
LEMMA CellsKept ==
    ASSUME SimInv, NEW t \in Balls, InCall(t), NEW s \in Steps \ {"enter"},
           pc' = [pc EXCEPT ![t] = s], s \in Moving => pc[t] \in Moving,
           phase' \in {"threads", "run", "aborted", "crashed"},
           UNCHANGED <<size, sticky, balls, ballAt, arguments, started, turn, from>>,
           to' \in [Balls -> Int \X Int], x' \in [Balls -> Int], y' \in [Balls -> Int],
           dx' \in [Balls -> Int], dy' \in [Balls -> Int]
    PROVE  SimInv'
<1>1. /\ turn \in [Balls -> Balls] /\ from \in [Balls -> Int \X Int]
      /\ ballAt \in [Cells -> Balls \cup {NoBall}] /\ (~single => turn[t] = t)
  BY DEF SimInv, SimTypeOK, OwnTurn
<1>2. phase' \in Phases \ {"sticky", "balls"}
  BY DEF Phases
<1> QED BY <1>1, <1>2, StepKeeps DEF InCall

\* The end of a call.
LEMMA CallEnds ==
    ASSUME SimInv, NEW t \in Balls, InCall(t), Return(t),
           UNCHANGED <<size, sticky, balls, ballAt, x, y>>,
           dx' \in [Balls -> Int], dy' \in [Balls -> Int]
    PROVE  SimInv'
<1>1. /\ turn \in [Balls -> Balls] /\ from \in [Balls -> Int \X Int]
      /\ to \in [Balls -> Int \X Int] /\ x \in [Balls -> Int] /\ y \in [Balls -> Int]
      /\ ballAt \in [Cells -> Balls \cup {NoBall}] /\ (~single => turn[t] = t)
  BY DEF SimInv, SimTypeOK, OwnTurn
<1>2. NextBall(t) \in Balls /\ (~single => NextBall(t) = t)
  BY <1>1, NextBallExists DEF SimInv, NextBall
<1>3. /\ pc' = [pc EXCEPT ![t] = "check"] /\ turn' = [turn EXCEPT ![t] = NextBall(t)]
      /\ from' = [from EXCEPT ![t] = <<0, 0>>] /\ to' = [to EXCEPT ![t] = <<0, 0>>]
      /\ UNCHANGED <<phase, arguments, started>>
  BY DEF Return
<1>4. /\ turn' \in [Balls -> Balls] /\ (~single => turn'[t] = t)
      /\ from' \in [Balls -> Int \X Int] /\ to' \in [Balls -> Int \X Int]
      /\ \A u \in Balls \ {t} : turn'[u] = turn[u] /\ from'[u] = from[u]
  BY <1>1, <1>2, <1>3
<1>5. phase' \in Phases \ {"sticky", "balls"} /\ "check" \in Steps
      /\ "check" \notin Moving /\ "check" # "enter"
  BY <1>3 DEF InCall, Phases, Steps, Moving
<1>6. UNCHANGED <<ballAt, x, y>> /\ x' \in [Balls -> Int] /\ y' \in [Balls -> Int]
      /\ ballAt' \in [Cells -> Balls \cup {NoBall}]
  BY <1>1
<1>7. /\ t \in started /\ balls = Balls
      /\ \A c \in Cells : ballAt'[c] \in {ballAt[c], NoBall}
      /\ \A c, d \in Cells : ballAt'[c] = turn[t] /\ ballAt'[d] = turn[t] => c = d
  BY DEF InCall
<1> QED BY <1>3, <1>4, <1>5, <1>6, <1>7, StepKeeps

\* A step of a thread keeps it: only the ball's own thread takes it out of a
\* cell and puts it into another.
LEMMA ThreadKeeps ==
    ASSUME SimInv, NEW t \in Balls, ThreadStep(t)
    PROVE  SimInv'
<1> DEFINE b == turn[t]
<1>1. InCall(t)
  BY StepStarts
<1>2. /\ pc \in [Balls -> Steps] /\ turn \in [Balls -> Balls]
      /\ from \in [Balls -> Int \X Int] /\ to \in [Balls -> Int \X Int]
      /\ x \in [Balls -> Int] /\ y \in [Balls -> Int]
      /\ dx \in [Balls -> Int] /\ dy \in [Balls -> Int]
      /\ ballAt \in [Cells -> Balls \cup {NoBall}] /\ b \in Balls
      /\ (~single => turn[t] = t)
  BY DEF SimInv, SimTypeOK, OwnTurn
<1>3. /\ x[b] \in Int /\ y[b] \in Int /\ dx[b] \in Int /\ dy[b] \in Int
      /\ BounceX(b) \in Int /\ BounceY(b) \in Int
  BY <1>2 DEF BounceX, BounceY
<1>4. phase \in {"threads", "run"} /\ t \in started
  BY <1>1 DEF InCall
<1>5. /\ "edgeX" \in Steps /\ "edgeY" \in Steps /\ "next" \in Steps /\ "meetX" \in Steps
      /\ "meetY" \in Steps /\ "reverse" \in Steps /\ "advance" \in Steps /\ "leave" \in Steps
      /\ "stick" \in Steps /\ "stick" \notin Moving /\ "check" \notin Moving
      /\ Moving \subseteq Steps \ {"enter"}
      /\ UNCHANGED arguments => UNCHANGED single
  BY DEF Steps, Moving, arguments
<1> HIDE DEF b
\* Statements that read the board, or write positions and directions only.
<1>6. ASSUME NEW s \in Steps \ {"enter"}, pc' = [pc EXCEPT ![t] = s],
             s \in Moving => pc[t] \in Moving,
             phase' \in {"threads", "run", "aborted", "crashed"},
             UNCHANGED <<size, sticky, balls, ballAt, arguments, started, turn, from>>,
             to' \in [Balls -> Int \X Int], x' \in [Balls -> Int], y' \in [Balls -> Int],
             dx' \in [Balls -> Int], dy' \in [Balls -> Int]
      PROVE  SimInv'
  BY <1>1, <1>6, CellsKept
\* The program ends in the middle of a call.
<1>7. ASSUME phase' \in {"aborted", "crashed"}, UNCHANGED <<boardVars, threadVars>>
      PROVE  SimInv'
  <2>1. Cells' = Cells /\ width' = width /\ height' = height
    BY <1>7, CellsStay DEF boardVars
  <2>2. /\ UNCHANGED <<sticky, balls, ballAt, x, y, dx, dy, single, nsticky, started>>
        /\ UNCHANGED <<pc, turn, from, to>> /\ balls = Balls
    BY <1>1, <1>7 DEF boardVars, threadVars, arguments, InCall
  <2> QED BY <1>7, <2>1, <2>2 DEF SimInv, SimTypeOK, Drawn, OwnTurn, AtMostFrom, NoDoubles,
                                  Phases
<1>8. CASE Check(t)
  <2>1. CASE phase' = "aborted" /\ UNCHANGED threadVars
    BY <1>7, <1>8, <2>1 DEF Check
  <2>2. CASE Return(t)
    BY <1>1, <1>2, <1>8, <2>2, CallEnds DEF Check, boardVars
  <2>3. CASE /\ BallIn(x[b], y[b]) = b /\ pc' = [pc EXCEPT ![t] = "edgeX"]
             /\ from' = [from EXCEPT ![t] = <<x[b], y[b]>>]
             /\ UNCHANGED <<phase, arguments, started, turn, to, done>>
    <3>1. UNCHANGED <<size, sticky, balls, ballAt, x, y, dx, dy>>
      BY <1>8 DEF Check, boardVars
    <3>2. <<x[b], y[b]>> \in Cells /\ ballAt[<<x[b], y[b]>>] = b
      BY <1>1, <2>3 DEF BallIn, OnBoard, InCall, b
    <3>3. \A c \in Cells : ballAt[c] = b => c = <<x[b], y[b]>>
      BY <1>1, <3>2 DEF InCall, b
    <3>4. /\ from' \in [Balls -> Int \X Int] /\ from'[t] = <<x[b], y[b]>>
          /\ \A u \in Balls \ {t} : turn'[u] = turn[u] /\ from'[u] = from[u]
      BY <1>2, <1>3, <2>3
    <3>5. phase' \in Phases \ {"sticky", "balls"} /\ "edgeX" # "enter"
      BY <1>4, <2>3 DEF Phases
    <3>6. \A c \in Cells : ballAt'[c] = turn'[t] => c = from'[t]
      BY <2>3, <3>1, <3>3, <3>4 DEF b
    <3>7. /\ t \in started /\ balls = Balls
          /\ \A c, d \in Cells : ballAt'[c] = turn[t] /\ ballAt'[d] = turn[t] => c = d
          /\ \A c \in Cells : ballAt'[c] \in {ballAt[c], NoBall}
      BY <1>1, <3>1 DEF InCall
    <3>8. /\ turn' \in [Balls -> Balls] /\ (~single => turn'[t] = t)
          /\ to' \in [Balls -> Int \X Int] /\ x' \in [Balls -> Int] /\ y' \in [Balls -> Int]
          /\ dx' \in [Balls -> Int] /\ dy' \in [Balls -> Int]
          /\ ballAt' \in [Cells -> Balls \cup {NoBall}]
      BY <1>2, <2>3, <3>1
    <3> QED BY <1>5, <2>3, <3>1, <3>4, <3>5, <3>6, <3>7, <3>8, StepKeeps
  <2> QED BY <1>8, <2>1, <2>2, <2>3 DEF Check, b
<1>9. CASE EdgeX(t)
  <2>1. /\ pc[t] = "edgeX" /\ pc' = [pc EXCEPT ![t] = "edgeY"]
        /\ UNCHANGED <<phase, arguments, started, turn, from, to>>
        /\ dx' = [dx EXCEPT ![b] = BounceX(b)]
        /\ UNCHANGED <<size, sticky, balls, ballAt, x, y, dy, done>>
    BY <1>9 DEF EdgeX, At, Go, b
  <2> QED BY <1>2, <1>3, <1>4, <1>5, <1>6, <2>1 DEF Moving
<1>10. CASE EdgeY(t)
  <2>1. /\ pc[t] = "edgeY" /\ pc' = [pc EXCEPT ![t] = "next"]
        /\ UNCHANGED <<phase, arguments, started, turn, from, to>>
        /\ dy' = [dy EXCEPT ![b] = BounceY(b)]
        /\ UNCHANGED <<size, sticky, balls, ballAt, x, y, dx, done>>
    BY <1>10 DEF EdgeY, At, Go, b
  <2> QED BY <1>2, <1>3, <1>4, <1>5, <1>6, <2>1 DEF Moving
<1>11. CASE Choose(t)
  <2>1. PICK s \in {"meetX", "reverse", "advance"} : pc' = [pc EXCEPT ![t] = s]
    BY <1>11 DEF Choose
  <2>2. /\ pc[t] = "next" /\ to' = [to EXCEPT ![t] = <<x[b] + dx[b], y[b] + dy[b]>>]
        /\ UNCHANGED <<phase, arguments, started, turn, from, done>>
        /\ UNCHANGED <<size, sticky, balls, ballAt, x, y, dx, dy>>
    BY <1>11 DEF Choose, At, b, boardVars
  <2>3. to' \in [Balls -> Int \X Int]
    BY <1>2, <1>3, <2>2
  <2> QED BY <1>2, <1>4, <1>5, <1>6, <2>1, <2>2, <2>3 DEF Moving
<1>12. CASE MeetX(t)
  <2> DEFINE other == BallIn(to[t][1], to[t][2])
  <2>1. CASE other = NoBall
    BY <1>7, <1>12, <2>1 DEF MeetX, Meet, boardVars
  <2>2. CASE other # NoBall
    <3>1. /\ pc[t] = "meetX" /\ pc' = [pc EXCEPT ![t] = "meetY"]
          /\ UNCHANGED <<phase, arguments, started, turn, from, to>>
          /\ dx' = Exchanged(dx, b, other, dx[b])
          /\ UNCHANGED <<size, sticky, balls, ballAt, x, y, dy>>
      BY <1>12, <2>2 DEF MeetX, Meet, At, Go, b
    <3>2. other \in Balls
      BY <1>2, <2>2 DEF BallIn, OnBoard
    <3> HIDE DEF other
    <3>3. dx' \in [Balls -> Int]
      BY <1>2, <1>3, <3>1, <3>2 DEF Exchanged
    <3> QED BY <1>2, <1>4, <1>5, <1>6, <3>1, <3>3 DEF Moving
  <2> QED BY <2>1, <2>2
<1>13. CASE MeetY(t)
  <2> DEFINE other == BallIn(to[t][1], to[t][2])
  <2>1. CASE other = NoBall
    BY <1>7, <1>13, <2>1 DEF MeetY, Meet, boardVars
  <2>2. CASE other # NoBall
    <3>1. /\ dy' = Exchanged(dy, b, other, dy[b]) /\ Return(t)
          /\ UNCHANGED <<size, sticky, balls, ballAt, x, y, dx>>
      BY <1>13, <2>2 DEF MeetY, Meet, b
    <3>2. other \in Balls
      BY <1>2, <2>2 DEF BallIn, OnBoard
    <3> HIDE DEF other
    <3>3. dy' \in [Balls -> Int] /\ dx' \in [Balls -> Int]
      BY <1>2, <1>3, <3>1, <3>2 DEF Exchanged
    <3> QED BY <1>1, <3>1, <3>3, CallEnds
  <2> QED BY <2>1, <2>2
<1>14. CASE TurnBack(t)
  <2>1. /\ dx' = [dx EXCEPT ![b] = -dx[b]] /\ dy' = [dy EXCEPT ![b] = -dy[b]] /\ Return(t)
        /\ UNCHANGED <<size, sticky, balls, ballAt, x, y>>
    BY <1>14 DEF TurnBack, b
  <2>2. dx' \in [Balls -> Int] /\ dy' \in [Balls -> Int]
    BY <1>2, <1>3, <2>1
  <2> QED BY <1>1, <2>1, <2>2, CallEnds
<1>15. CASE Step(t)
  <2>1. /\ pc[t] = "advance" /\ pc' = [pc EXCEPT ![t] = "leave"]
        /\ UNCHANGED <<phase, arguments, started, turn, from, to>>
        /\ x' = [x EXCEPT ![b] = x[b] + dx[b]] /\ y' = [y EXCEPT ![b] = y[b] + dy[b]]
        /\ UNCHANGED <<size, sticky, balls, ballAt, dx, dy, done>>
    BY <1>15 DEF Step, At, Go, b
  <2>2. x' \in [Balls -> Int] /\ y' \in [Balls -> Int]
    BY <1>2, <1>3, <2>1
  <2> QED BY <1>2, <1>4, <1>5, <1>6, <2>1, <2>2 DEF Moving
<1>16. CASE Leave(t)
  <2>1. /\ pc[t] = "leave" /\ pc' = [pc EXCEPT ![t] = "enter"] /\ "enter" \in Steps
        /\ UNCHANGED <<phase, arguments, started, turn, from, to>>
        /\ ballAt' = [ballAt EXCEPT ![from[t]] = NoBall]
        /\ UNCHANGED <<size, sticky, balls, x, y, dx, dy, done>>
    BY <1>16 DEF Leave, At, Go, Steps
  <2>2. \A c \in Cells : ballAt'[c] = IF c = from[t] THEN NoBall ELSE ballAt[c]
    BY <1>2, <2>1
  <2>3. ballAt' \in [Cells -> Balls \cup {NoBall}]
    BY <1>2, <2>1
  <2>4. \A c \in Cells : ballAt'[c] # turn[t]
    BY <1>1, <2>1, <2>2 DEF InCall, Moving
  <2>5. phase' \in Phases \ {"sticky", "balls"} /\ "enter" \notin Moving
    BY <1>4, <2>1 DEF Phases, Moving
  <2>6. /\ turn' \in [Balls -> Balls] /\ (~single => turn'[t] = t)
        /\ from' \in [Balls -> Int \X Int] /\ to' \in [Balls -> Int \X Int]
        /\ x' \in [Balls -> Int] /\ y' \in [Balls -> Int]
        /\ dx' \in [Balls -> Int] /\ dy' \in [Balls -> Int]
        /\ \A u \in Balls \ {t} : turn'[u] = turn[u] /\ from'[u] = from[u]
        /\ \A c \in Cells : ballAt'[c] # turn'[t] /\ ballAt'[c] \in {ballAt[c], NoBall}
        /\ t \in started /\ balls = Balls
    BY <1>1, <1>2, <2>1, <2>2, <2>4 DEF InCall
  <2> QED BY <2>1, <2>3, <2>4, <2>5, <2>6, StepKeeps
<1>17. CASE Enter(t)
  <2>1. /\ pc[t] = "enter" /\ pc' = [pc EXCEPT ![t] = "stick"]
        /\ UNCHANGED <<phase, arguments, started, turn, from, to>>
        /\ ballAt' = [ballAt EXCEPT ![to[t]] = b]
        /\ UNCHANGED <<size, sticky, balls, x, y, dx, dy, done>>
    BY <1>17 DEF Enter, At, Go, b
  <2>2. \A c \in Cells : ballAt'[c] = IF c = to[t] THEN b ELSE ballAt[c]
    BY <1>2, <2>1
  <2>3. ballAt' \in [Cells -> Balls \cup {NoBall}]
    BY <1>2, <2>1
  <2>4. \A c \in Cells : ballAt[c] # turn[t]
    BY <1>1, <2>1 DEF InCall
  <2>5. phase' \in Phases \ {"sticky", "balls"} /\ "stick" # "enter"
    BY <1>4, <2>1 DEF Phases
  <2>6. \A c, d \in Cells : ballAt'[c] = turn[t] /\ ballAt'[d] = turn[t] => c = d
    BY <2>2, <2>4
  <2>7. \A c \in Cells : \/ ballAt'[c] \in {ballAt[c], NoBall}
                         \/ ballAt'[c] = turn[t] /\ pc[t] # "check"
    BY <2>1, <2>2 DEF b
  <2>8. /\ turn' \in [Balls -> Balls] /\ (~single => turn'[t] = t)
        /\ from' \in [Balls -> Int \X Int] /\ to' \in [Balls -> Int \X Int]
        /\ x' \in [Balls -> Int] /\ y' \in [Balls -> Int]
        /\ dx' \in [Balls -> Int] /\ dy' \in [Balls -> Int]
        /\ \A u \in Balls \ {t} : turn'[u] = turn[u] /\ from'[u] = from[u]
        /\ t \in started /\ balls = Balls
    BY <1>1, <1>2, <2>1 DEF InCall
  <2> QED BY <1>5, <2>1, <2>3, <2>5, <2>6, <2>7, <2>8, StepKeeps
<1>18. CASE Stick(t)
  <2>1. /\ dx' = [dx EXCEPT ![b] = IF to[t] \in sticky THEN 0 ELSE dx[b]]
        /\ dy' = [dy EXCEPT ![b] = IF to[t] \in sticky THEN 0 ELSE dy[b]] /\ Return(t)
        /\ UNCHANGED <<size, sticky, balls, ballAt, x, y>>
    BY <1>18 DEF Stick, b
  <2>2. dx' \in [Balls -> Int] /\ dy' \in [Balls -> Int]
    BY <1>2, <1>3, <2>1
  <2> QED BY <1>1, <2>1, <2>2, CallEnds
<1> QED BY <1>8, <1>9, <1>10, <1>11, <1>12, <1>13, <1>14, <1>15, <1>16, <1>17, <1>18
        DEF ThreadStep

\* Every step of the simulator keeps it.
LEMMA SimInvNext == SimInv /\ [SNext]_svars => SimInv'
<1> SUFFICES ASSUME SimInv, [SNext]_svars PROVE SimInv'
  OBVIOUS
<1>1. CASE SetUp \/ Redraw
  BY <1>1, SetUpKeeps
<1>2. ASSUME NEW t \in Balls, ThreadStep(t) PROVE SimInv'
  BY <1>2, ThreadKeeps
<1>3. CASE UNCHANGED svars
  BY <1>3, CellsStay DEF svars, SimInv, SimTypeOK, Drawn, OwnTurn, AtMostFrom, NoDoubles,
                         boardVars, threadVars, arguments
<1> QED BY <1>1, <1>2, <1>3 DEF SNext, Ended

\* However many threads race over a board of whatever size, and even when one
\* of them ends the program, no ball is stored in two cells (move() takes a
\* ball out of its cell before it puts it into the next).
THEOREM NeverStoredTwice == SSpec => []NoDoubles
<1>1. SimInv => NoDoubles
  BY DEF SimInv
<1> QED BY <1>1, SimInvInit, SimInvNext, PTL DEF SSpec

-----------------------------------------------------------------------------
(* Without threads the simulator is the board: `done', the board after the *)
(* last completed call, changes as PongBoard allows.                       *)

\* Types of the board after the last completed call.
DoneTypeOK ==
    /\ done.ballAt \in [Cells -> Balls \cup {NoBall}]
    /\ done.x \in [Balls -> Int] /\ done.y \in [Balls -> Int]
    /\ done.dx \in [Balls -> Int] /\ done.dy \in [Balls -> Int]

\* Between calls the board is what the last one left.
BetweenCalls ==
    /\ ballAt = done.ballAt /\ x = done.x /\ y = done.y /\ dx = done.dx /\ dy = done.dy

\* Where a call of move() would take ball b on that board, and whom it meets.
Target(b) == <<Completed!NextX(b), Completed!NextY(b)>>
Met(b) == Completed!BallIn(Completed!NextX(b), Completed!NextY(b))

\* What a call has read and written so far, by the statement it is at, in
\* terms of the board it began on.
MidCall(b) ==
    /\ ~Completed!Stopped(b)
    /\ from[1] = <<done.x[b], done.y[b]>>
    /\ pc[1] \notin {"edgeX", "edgeY", "next"} => to[1] = Target(b)
    /\ pc[1] \notin {"leave", "enter", "stick"} => x = done.x /\ y = done.y
    /\ pc[1] \in {"leave", "enter", "stick"} =>
          /\ x = [done.x EXCEPT ![b] = Completed!NextX(b)]
          /\ y = [done.y EXCEPT ![b] = Completed!NextY(b)]
    /\ pc[1] = "edgeX" => dx = done.dx
    /\ pc[1] \in {"edgeX", "edgeY"} => dy = done.dy
    /\ pc[1] = "meetY" => dx = Exchanged(done.dx, b, Met(b), Completed!BounceX(b))
    /\ pc[1] \notin {"edgeX", "meetY"} => dx = [done.dx EXCEPT ![b] = Completed!BounceX(b)]
    /\ pc[1] \notin {"edgeX", "edgeY"} => dy = [done.dy EXCEPT ![b] = Completed!BounceY(b)]
    /\ pc[1] \notin {"enter", "stick"} => ballAt = done.ballAt
    /\ pc[1] = "enter" => ballAt = [done.ballAt EXCEPT ![from[1]] = NoBall]
    /\ pc[1] = "stick" => ballAt = Completed!BoardAfter(b, Target(b))
    /\ pc[1] \in {"meetX", "meetY"} => Met(b) # NoBall
    /\ pc[1] = "reverse" => Target(b) \notin Cells
    /\ pc[1] \in {"advance", "leave", "enter", "stick"} =>
          Target(b) \in Cells /\ Met(b) = NoBall

\* With threads nothing is said of `done', and nothing needs to be: it stays
\* as it was at the start.
Single ==
    single /\ phase \notin {"aborted", "crashed"} =>
        /\ DoneTypeOK /\ done.sticky = sticky /\ done.balls = balls
        /\ IF pc[1] = "check" THEN BetweenCalls ELSE MidCall(turn[1])

\* The board of `done' has the cells and the balls of the board.
LEMMA SameBoard ==
    /\ Completed!Balls = Balls /\ Completed!NoBall = NoBall
    /\ Completed!Cells = Cells /\ Completed!Cells' = Cells'
BY DEF Completed!Balls, Balls, Completed!NoBall, NoBall, Completed!Cells, Cells,
       Completed!Xs, Xs, Completed!Ys, Ys

\* What is said in terms of the board a call began on stays true of it.
LEMMA DoneStays ==
    ASSUME UNCHANGED <<size, done>>, NEW b
    PROVE  /\ Completed!BounceX(b)' = Completed!BounceX(b)
           /\ Completed!BounceY(b)' = Completed!BounceY(b)
           /\ Target(b)' = Target(b) /\ Met(b)' = Met(b)
           /\ Completed!Stopped(b)' = Completed!Stopped(b)
           /\ Completed!BoardAfter(b, Target(b))' = Completed!BoardAfter(b, Target(b))
           /\ Completed!NextX(b)' = Completed!NextX(b)
           /\ Completed!NextY(b)' = Completed!NextY(b)
           /\ DoneTypeOK' = DoneTypeOK
           /\ Exchanged(done.dx, b, Met(b), Completed!BounceX(b))'
                = Exchanged(done.dx, b, Met(b), Completed!BounceX(b))
<1>1. Completed!Cells' = Completed!Cells /\ Cells' = Cells /\ done' = done
  BY CellsStay, SameBoard
<1>2. /\ Completed!BounceX(b)' = Completed!BounceX(b)
      /\ Completed!BounceY(b)' = Completed!BounceY(b)
  BY <1>1 DEF Completed!BounceX, Completed!BounceY, Completed!OnBoard
<1>3. /\ Completed!NextX(b)' = Completed!NextX(b)
      /\ Completed!NextY(b)' = Completed!NextY(b)
  BY <1>1, <1>2 DEF Completed!NextX, Completed!NextY
<1>4. Target(b)' = Target(b) /\ Met(b)' = Met(b)
  BY <1>1, <1>3, SameBoard DEF Target, Met, Completed!BallIn, Completed!OnBoard,
                               Completed!NoBall
<1> QED BY <1>1, <1>2, <1>3, <1>4 DEF Completed!Stopped, Completed!BoardAfter, DoneTypeOK,
                                        Exchanged

\* One thread only moves.
LEMMA OneThread ==
    ASSUME SimInv, single, NEW t \in Balls, ThreadStep(t)
    PROVE  t = 1 /\ InCall(1) /\ Cells' = Cells /\ UNCHANGED <<size, sticky, balls, single>>
<1>1. InCall(t)
  BY StepStarts
<1>2. UNCHANGED <<size, sticky, balls, single>>
  BY DEF ThreadStep, Check, EdgeX, EdgeY, Choose, MeetX, MeetY, Meet, TurnBack, Step, Leave,
         Enter, Stick, Return, Go, boardVars, threadVars, arguments
<1> QED BY <1>1, <1>2, CellsStay DEF InCall, SimInv, OwnTurn

\* A call that has begun goes on as it should.
LEMMA CallGoesOn ==
    ASSUME SimInv, Single, single, pc[1] # "check", ThreadStep(1), ~Return(1),
           phase' \notin {"aborted", "crashed"}, NEW b, b = turn[1]
    PROVE  Single' /\ UNCHANGED <<size, done>>
<1> DEFINE bx == Completed!BounceX(b)
           by == Completed!BounceY(b)
<1>0. 1 \in Balls
  BY BoardAssumption DEF Balls
<1>1. InCall(1) /\ Cells' = Cells /\ UNCHANGED <<size, sticky, balls, single>>
  BY <1>0, OneThread
<1>2. /\ DoneTypeOK /\ done.sticky = sticky /\ done.balls = balls /\ MidCall(b)
      /\ b \in Balls
  BY <1>1 DEF Single, InCall
<1>3. /\ bx = IF OnBoard(done.x[b] + done.dx[b], done.y[b]) THEN done.dx[b] ELSE -done.dx[b]
      /\ by = IF OnBoard(done.x[b], done.y[b] + done.dy[b]) THEN done.dy[b] ELSE -done.dy[b]
      /\ Completed!NextX(b) = done.x[b] + bx /\ Completed!NextY(b) = done.y[b] + by
      /\ Met(b) = IF OnBoard(Completed!NextX(b), Completed!NextY(b))
                  THEN done.ballAt[Target(b)] ELSE NoBall
  BY SameBoard DEF Completed!BounceX, Completed!BounceY, Completed!NextX, Completed!NextY,
                   Completed!OnBoard, OnBoard, Met, Target, Completed!BallIn
<1>4. /\ bx \in Int /\ by \in Int /\ done.x[b] \in Int /\ done.y[b] \in Int
      /\ done.dx[b] \in Int /\ done.dy[b] \in Int
  BY <1>2, <1>3 DEF DoneTypeOK
<1>5. /\ pc \in [Balls -> Steps] /\ to \in [Balls -> Int \X Int]
      /\ x \in [Balls -> Int] /\ y \in [Balls -> Int] /\ dx \in [Balls -> Int]
      /\ dy \in [Balls -> Int]
  BY DEF SimInv, SimTypeOK
\* What remains to show of a step.
<1>6. ASSUME UNCHANGED done, UNCHANGED <<turn, from>>, pc'[1] # "check", MidCall(b)'
      PROVE  Single' /\ UNCHANGED <<size, done>>
  <2>1. DoneTypeOK' = DoneTypeOK
    BY <1>1, <1>6, DoneStays
  <2> QED BY <1>1, <1>2, <1>6, <2>1 DEF Single
<1>7. UNCHANGED done =>
        /\ bx' = bx /\ by' = by /\ Target(b)' = Target(b) /\ Met(b)' = Met(b)
        /\ Completed!Stopped(b)' = Completed!Stopped(b)
        /\ Completed!BoardAfter(b, Target(b))' = Completed!BoardAfter(b, Target(b))
        /\ Completed!NextX(b)' = Completed!NextX(b)
        /\ Completed!NextY(b)' = Completed!NextY(b)
        /\ Exchanged(done.dx, b, Met(b), bx)' = Exchanged(done.dx, b, Met(b), bx)
  BY <1>1, DoneStays
<1>8. CASE EdgeX(1)
  <2>1. /\ pc[1] = "edgeX" /\ pc'[1] = "edgeY"
        /\ UNCHANGED <<turn, from, to, x, y, dy, ballAt, done>>
        /\ dx' = [dx EXCEPT ![b] = BounceX(b)]
    BY <1>0, <1>5, <1>8 DEF EdgeX, At, Go
  <2>2. dx' = [done.dx EXCEPT ![b] = bx]
    BY <1>2, <1>3, <2>1 DEF MidCall, BounceX
  <2>3. MidCall(b)'
    BY <1>2, <1>7, <2>1, <2>2 DEF MidCall
  <2> QED BY <1>6, <2>1, <2>3
<1>9. CASE EdgeY(1)
  <2>1. /\ pc[1] = "edgeY" /\ pc'[1] = "next"
        /\ UNCHANGED <<turn, from, to, x, y, dx, ballAt, done>>
        /\ dy' = [dy EXCEPT ![b] = BounceY(b)]
    BY <1>0, <1>5, <1>9 DEF EdgeY, At, Go
  <2>2. dy' = [done.dy EXCEPT ![b] = by]
    BY <1>2, <1>3, <2>1 DEF MidCall, BounceY
  <2>3. MidCall(b)'
    BY <1>2, <1>7, <2>1, <2>2 DEF MidCall
  <2> QED BY <1>6, <2>1, <2>3
<1>10. CASE Choose(1)
  <2>1. /\ pc[1] = "next" /\ UNCHANGED <<turn, from, x, y, dx, dy, ballAt, done>>
        /\ to'[1] = <<x[b] + dx[b], y[b] + dy[b]>>
        /\ pc'[1] = IF BallIn(x[b] + dx[b], y[b] + dy[b]) # NoBall THEN "meetX"
                    ELSE IF ~OnBoard(x[b] + dx[b], y[b] + dy[b]) THEN "reverse" ELSE "advance"
    BY <1>0, <1>5, <1>10 DEF Choose, At, boardVars
  <2>2. x[b] + dx[b] = Completed!NextX(b) /\ y[b] + dy[b] = Completed!NextY(b)
    <3>1. x = done.x /\ y = done.y /\ dx[b] = bx /\ dy[b] = by
      BY <1>2, <1>4, <2>1 DEF MidCall, DoneTypeOK
    <3> QED BY <1>3, <3>1
  <2>3. /\ to'[1] = Target(b)
        /\ pc'[1] = IF Met(b) # NoBall THEN "meetX"
                    ELSE IF Target(b) \notin Cells THEN "reverse" ELSE "advance"
    BY <1>2, <1>3, <2>1, <2>2 DEF MidCall, BallIn, Target, OnBoard
  <2>4. MidCall(b)'
    BY <1>1, <1>2, <1>7, <2>1, <2>3 DEF MidCall
  <2> QED BY <1>6, <2>1, <2>3, <2>4
<1>11. CASE MeetX(1)
  <2>1. pc[1] = "meetX" /\ BallIn(to[1][1], to[1][2]) = Met(b)
    <3>1. pc[1] = "meetX"
      BY <1>11 DEF MeetX, Meet, At
    <3>2. to[1] = Target(b) /\ ballAt = done.ballAt
      BY <1>2, <3>1 DEF MidCall
    <3> QED BY <1>3, <3>1, <3>2 DEF BallIn, Target, OnBoard
  <2>2. Met(b) # NoBall
    BY <1>2, <2>1 DEF MidCall
  <2>3. /\ pc'[1] = "meetY" /\ UNCHANGED <<turn, from, to, x, y, dy, ballAt, done>>
        /\ dx' = Exchanged(dx, b, Met(b), dx[b])
    BY <1>0, <1>5, <1>11, <2>1, <2>2 DEF MeetX, Meet, Go
  <2>4. dx = [done.dx EXCEPT ![b] = bx] /\ dx[b] = bx
    BY <1>2, <1>4, <2>1 DEF MidCall, DoneTypeOK
  <2>5. Met(b) \in Balls
    BY <1>2, <1>3, <2>2 DEF DoneTypeOK, OnBoard, Target
  <2>6. Exchanged(dx, b, Met(b), dx[b]) = Exchanged(done.dx, b, Met(b), bx)
    BY <1>2, <1>4, <2>4, <2>5 DEF Exchanged, DoneTypeOK
  <2>7. MidCall(b)'
    BY <1>2, <1>7, <2>1, <2>2, <2>3, <2>6 DEF MidCall
  <2> QED BY <1>6, <2>3, <2>7
<1>12. CASE Step(1)
  <2>1. /\ pc[1] = "advance" /\ pc'[1] = "leave"
        /\ UNCHANGED <<turn, from, to, dx, dy, ballAt, done>>
        /\ x' = [x EXCEPT ![b] = x[b] + dx[b]] /\ y' = [y EXCEPT ![b] = y[b] + dy[b]]
    BY <1>0, <1>5, <1>12 DEF Step, At, Go
  <2>2. x = done.x /\ y = done.y /\ dx[b] = bx /\ dy[b] = by
    BY <1>2, <1>4, <2>1 DEF MidCall, DoneTypeOK
  <2>3. /\ x' = [done.x EXCEPT ![b] = Completed!NextX(b)]
        /\ y' = [done.y EXCEPT ![b] = Completed!NextY(b)]
    BY <1>3, <2>1, <2>2
  <2>4. MidCall(b)'
    BY <1>1, <1>2, <1>7, <2>1, <2>3 DEF MidCall
  <2> QED BY <1>6, <2>1, <2>4
<1>13. CASE Leave(1)
  <2>1. /\ pc[1] = "leave" /\ pc'[1] = "enter"
        /\ UNCHANGED <<turn, from, to, dx, dy, x, y, done>>
        /\ ballAt' = [ballAt EXCEPT ![from[1]] = NoBall]
    BY <1>0, <1>5, <1>13 DEF Leave, At, Go
  <2>2. MidCall(b)'
    BY <1>1, <1>2, <1>7, <2>1 DEF MidCall
  <2> QED BY <1>6, <2>1, <2>2
<1>14. CASE Enter(1)
  <2>1. /\ pc[1] = "enter" /\ pc'[1] = "stick"
        /\ UNCHANGED <<turn, from, to, dx, dy, x, y, done>>
        /\ ballAt' = [ballAt EXCEPT ![to[1]] = b]
    BY <1>0, <1>5, <1>14 DEF Enter, At, Go
  <2>2. /\ from[1] = <<done.x[b], done.y[b]>> /\ to[1] = Target(b)
        /\ ballAt = [done.ballAt EXCEPT ![from[1]] = NoBall]
    BY <1>2, <2>1 DEF MidCall
  <2>3. ballAt' = Completed!BoardAfter(b, Target(b))
    BY <2>1, <2>2 DEF Completed!BoardAfter, Completed!NoBall, NoBall
  <2>4. MidCall(b)'
    BY <1>1, <1>2, <1>7, <2>1, <2>3 DEF MidCall
  <2> QED BY <1>6, <2>1, <2>4
<1>15. ~Check(1) /\ ~TurnBack(1) /\ ~Stick(1)
  BY DEF Check, At, TurnBack, Stick
<1>16. ~MeetY(1)
  BY DEF MeetY, Meet
<1> QED BY <1>8, <1>9, <1>10, <1>11, <1>12, <1>13, <1>14, <1>15, <1>16 DEF ThreadStep

\* A call that returns has moved its ball as the board promises, or has found
\* it stopped.
LEMMA CallReturns ==
    ASSUME SimInv, Single, single, ThreadStep(1), Return(1), NEW b, b = turn[1]
    PROVE  [Completed!BoardNext]_(Completed!boardVars)
<1> DEFINE bx == Completed!BounceX(b)
           by == Completed!BounceY(b)
<1>1. 1 \in Balls
  BY BoardAssumption DEF Balls
<1>2. InCall(1) /\ Cells' = Cells /\ UNCHANGED <<size, sticky, balls, single>>
  BY <1>1, OneThread
<1>3. b \in Balls /\ balls = Balls /\ phase \notin {"aborted", "crashed"}
  BY <1>2 DEF InCall
<1>4. /\ DoneTypeOK /\ done.sticky = sticky /\ done.balls = balls
      /\ IF pc[1] = "check" THEN BetweenCalls ELSE MidCall(b)
  BY <1>3 DEF Single
<1>5. done' = Board'
  BY <1>2 DEF Return, Commit
<1>6. /\ done'.sticky = sticky' /\ done'.balls = balls' /\ done'.ballAt = ballAt'
      /\ done'.x = x' /\ done'.y = y' /\ done'.dx = dx' /\ done'.dy = dy'
  BY <1>5 DEF Board
<1>7. /\ bx = IF OnBoard(done.x[b] + done.dx[b], done.y[b]) THEN done.dx[b] ELSE -done.dx[b]
      /\ by = IF OnBoard(done.x[b], done.y[b] + done.dy[b]) THEN done.dy[b] ELSE -done.dy[b]
      /\ Met(b) = IF OnBoard(Completed!NextX(b), Completed!NextY(b))
                  THEN done.ballAt[Target(b)] ELSE NoBall
  BY SameBoard DEF Completed!BounceX, Completed!BounceY, Completed!OnBoard, OnBoard, Met,
                   Target, Completed!BallIn
<1>8. /\ bx \in Int /\ by \in Int /\ done.x[b] \in Int /\ done.y[b] \in Int
      /\ done.dx[b] \in Int /\ done.dy[b] \in Int
  BY <1>3, <1>4, <1>7 DEF DoneTypeOK
\* What remains to show of a call that does something.
<1>9. ASSUME MidCall(b), Completed!Turn(b)
      PROVE  Completed!BoardNext
  <2>1. Completed!Move(b)
    BY <1>2, <1>3, <1>4, <1>6, <1>9 DEF Completed!Move, MidCall, Completed!size, size
  <2> QED BY <1>3, <2>1, SameBoard DEF Completed!BoardNext
<1>10. CASE Check(1)
  <2>1. pc[1] = "check" /\ UNCHANGED boardVars
    BY <1>10 DEF Check, At
  <2> QED BY <1>2, <1>4, <1>6, <2>1 DEF BetweenCalls, boardVars, Completed!boardVars,
                                        Completed!size, size
<1>11. CASE MeetY(1)
  <2>1. pc[1] = "meetY" /\ BallIn(to[1][1], to[1][2]) = Met(b)
    <3>1. pc[1] = "meetY"
      BY <1>11 DEF MeetY, Meet, At
    <3>2. to[1] = Target(b) /\ ballAt = done.ballAt
      BY <1>4, <3>1 DEF MidCall
    <3> QED BY <1>7, <3>1, <3>2 DEF BallIn, Target, OnBoard
  <2>2. Met(b) # NoBall
    BY <1>4, <2>1 DEF MidCall
  <2>3. dy' = Exchanged(dy, b, Met(b), dy[b]) /\ UNCHANGED <<ballAt, x, y, dx>>
    BY <1>11, <2>1, <2>2 DEF MeetY, Meet
  <2>4. dy = [done.dy EXCEPT ![b] = by] /\ dy[b] = by
    BY <1>3, <1>4, <1>8, <2>1 DEF MidCall, DoneTypeOK
  <2>5. Met(b) \in Balls
    BY <1>4, <1>7, <2>2 DEF DoneTypeOK, OnBoard, Target
  <2>6. Exchanged(dy, b, Met(b), dy[b]) = Exchanged(done.dy, b, Met(b), by)
    BY <1>3, <1>4, <1>8, <2>4, <2>5 DEF Exchanged, DoneTypeOK
  <2>7. /\ ballAt = done.ballAt /\ x = done.x /\ y = done.y
        /\ dx = Exchanged(done.dx, b, Met(b), bx)
    BY <1>4, <2>1 DEF MidCall
  <2>8. Completed!Collide(b, Met(b))
    BY <1>6, <2>3, <2>6, <2>7 DEF Completed!Collide, Completed!Exchanged, Exchanged
  <2>9. Completed!Turn(b)
    BY <2>2, <2>8, SameBoard DEF Completed!Turn, Met
  <2> QED BY <1>4, <1>9, <2>1, <2>9
<1>12. CASE TurnBack(1)
  <2>1. /\ pc[1] = "reverse" /\ UNCHANGED <<ballAt, x, y>>
        /\ dx' = [dx EXCEPT ![b] = -dx[b]] /\ dy' = [dy EXCEPT ![b] = -dy[b]]
    BY <1>12 DEF TurnBack, At
  <2>2. /\ dx = [done.dx EXCEPT ![b] = bx] /\ dy = [done.dy EXCEPT ![b] = by]
        /\ ballAt = done.ballAt /\ x = done.x /\ y = done.y /\ Target(b) \notin Cells
    BY <1>4, <2>1 DEF MidCall
  <2>3. dx' = [done.dx EXCEPT ![b] = -bx] /\ dy' = [done.dy EXCEPT ![b] = -by]
    BY <1>3, <1>4, <1>8, <2>1, <2>2 DEF DoneTypeOK
  <2>4. Completed!Reverse(b)
    BY <1>6, <2>1, <2>2, <2>3 DEF Completed!Reverse
  <2>5. Completed!Turn(b)
    BY <2>2, <2>4, SameBoard DEF Completed!Turn, Completed!OnBoard, Target
  <2> QED BY <1>4, <1>9, <2>1, <2>5
<1>13. CASE Stick(1)
  <2>1. /\ pc[1] = "stick" /\ UNCHANGED <<ballAt, x, y>>
        /\ dx' = [dx EXCEPT ![b] = IF to[1] \in sticky THEN 0 ELSE dx[b]]
        /\ dy' = [dy EXCEPT ![b] = IF to[1] \in sticky THEN 0 ELSE dy[b]]
    BY <1>13 DEF Stick, At
  <2>2. /\ dx = [done.dx EXCEPT ![b] = bx] /\ dy = [done.dy EXCEPT ![b] = by]
        /\ x = [done.x EXCEPT ![b] = Completed!NextX(b)]
        /\ y = [done.y EXCEPT ![b] = Completed!NextY(b)]
        /\ ballAt = Completed!BoardAfter(b, Target(b)) /\ to[1] = Target(b)
        /\ Target(b) \in Cells /\ Met(b) = NoBall
    BY <1>4, <2>1 DEF MidCall
  <2>3. /\ dx' = [done.dx EXCEPT ![b] = IF Target(b) \in sticky THEN 0 ELSE bx]
        /\ dy' = [done.dy EXCEPT ![b] = IF Target(b) \in sticky THEN 0 ELSE by]
    BY <1>3, <1>4, <1>8, <2>1, <2>2 DEF DoneTypeOK
  <2>4. Completed!Advance(b, Completed!NextX(b), Completed!NextY(b))
    BY <1>4, <1>6, <2>1, <2>2, <2>3 DEF Completed!Advance, Target
  <2>5. Completed!Turn(b)
    BY <2>2, <2>4, SameBoard DEF Completed!Turn, Completed!OnBoard, Target, Met
  <2> QED BY <1>4, <1>9, <2>1, <2>5
<1>14. ~EdgeX(1) /\ ~EdgeY(1) /\ ~Choose(1) /\ ~MeetX(1) /\ ~Step(1) /\ ~Leave(1) /\ ~Enter(1)
  <2>1. pc \in [Balls -> Steps] /\ pc'[1] = "check"
    BY <1>1 DEF SimInv, SimTypeOK, Return
  <2> QED BY <1>1, <2>1 DEF EdgeX, EdgeY, Choose, MeetX, Meet, Step, Leave, Enter, Go, At,
                            threadVars
<1> QED BY <1>10, <1>11, <1>12, <1>13, <1>14 DEF ThreadStep

\* Every step of a single-threaded run keeps what is said of the call, and
\* changes `done' as the board does or not at all.
LEMMA SingleThreadStep ==
    ASSUME SimInv, SimInv', Single, single, ThreadStep(1)
    PROVE  Single' /\ [Completed!BoardNext]_(Completed!boardVars)
<1>1. 1 \in Balls
  BY BoardAssumption DEF Balls
<1>2. InCall(1) /\ Cells' = Cells /\ UNCHANGED <<size, sticky, balls, single>>
  BY <1>1, OneThread
<1>3. PICK b \in Balls : b = turn[1]
  BY <1>2 DEF InCall
<1>4. CASE Return(1)
  <2>1. done' = Board' /\ pc'[1] = "check"
    BY <1>1, <1>2, <1>4 DEF Return, Commit, SimInv, SimTypeOK
  <2>2. Single'
    BY <2>1 DEF Board, Single, BetweenCalls, DoneTypeOK, SimInv, SimTypeOK
  <2> QED BY <1>3, <1>4, <2>2, CallReturns
<1>5. CASE ~Return(1) /\ phase' \in {"aborted", "crashed"}
  <2>1. UNCHANGED <<size, done>>
    BY <1>2, <1>5 DEF ThreadStep, Check, EdgeX, EdgeY, Choose, MeetX, MeetY, Meet, TurnBack,
                      Step, Leave, Enter, Stick
  <2> QED BY <1>5, <2>1 DEF Single, Completed!boardVars, Completed!size, size
<1>6. CASE ~Return(1) /\ phase' \notin {"aborted", "crashed"} /\ pc[1] # "check"
  BY <1>3, <1>6, CallGoesOn DEF Completed!boardVars, Completed!size, size
<1>7. CASE ~Return(1) /\ phase' \notin {"aborted", "crashed"} /\ pc[1] = "check"
  <2>1. /\ UNCHANGED <<boardVars, turn, done>>
        /\ BallIn(x[b], y[b]) = b /\ ~Stopped(b) /\ pc'[1] = "edgeX"
        /\ from'[1] = <<x[b], y[b]>>
    BY <1>1, <1>3, <1>7 DEF ThreadStep, Check, EdgeX, EdgeY, Choose, MeetX, MeetY, Meet,
       TurnBack, Step, Leave, Enter, Stick, At, SimInv, SimTypeOK
  <2>2. BetweenCalls /\ DoneTypeOK /\ done.sticky = sticky /\ done.balls = balls
    BY <1>2, <1>7 DEF Single, InCall
  <2>3. MidCall(b)'
    BY <2>1, <2>2 DEF MidCall, BetweenCalls, Stopped, Completed!Stopped, boardVars
  <2>4. DoneTypeOK'
    BY <1>2, <2>1, <2>2 DEF DoneTypeOK
  <2> QED BY <1>2, <1>3, <2>1, <2>2, <2>3, <2>4 DEF Single, boardVars, Completed!boardVars,
                                                    Completed!size, size
<1> QED BY <1>4, <1>5, <1>6, <1>7

\* A step that leaves the board and the calls alone changes nothing of this.
LEMMA NothingDone ==
    ASSUME Single, UNCHANGED <<boardVars, done, single, pc, turn, from, to>>,
           phase \in {"aborted", "crashed"} => phase' = phase
    PROVE  Single' /\ [Completed!BoardNext]_(Completed!boardVars)
<1>1. Cells' = Cells /\ UNCHANGED <<size, done>>
  BY CellsStay DEF boardVars
<1>2. DoneTypeOK' = DoneTypeOK
  BY <1>1 DEF DoneTypeOK
<1>3. ASSUME single, phase' \notin {"aborted", "crashed"}, pc[1] # "check"
      PROVE  MidCall(turn[1])'
  <2>1. PICK b : b = turn[1]
    OBVIOUS
  <2>2. MidCall(b)
    BY <1>3, <2>1 DEF Single
  <2>3. MidCall(b)'
    BY <1>1, <2>2, DoneStays DEF MidCall, boardVars
  <2> QED BY <2>1, <2>3
<1>4. Single'
  BY <1>2, <1>3 DEF Single, BetweenCalls, boardVars
<1> QED BY <1>1, <1>4 DEF Completed!boardVars, Completed!size, size

\* So does every step of the set-up: a sticky cell and a ball at a time.
LEMMA SetUpImplements ==
    ASSUME SimInv, SimInv', Single, single, SetUp \/ Redraw
    PROVE  Single' /\ [Completed!BoardNext]_(Completed!boardVars)
<1>1. /\ phase \notin {"aborted", "crashed"}
      /\ DoneTypeOK /\ done.sticky = sticky /\ done.balls = balls
  BY DEF SetUp, Redraw, DrawSticky, StickyDone, DrawBall, Spawn, Single
<1>2. ASSUME phase \in {"sticky", "balls"} PROVE pc[1] = "check" /\ BetweenCalls
  BY <1>1, <1>2, BoardAssumption DEF SimInv, OwnTurn, Balls, Single
\* A draw that succeeds completes a step of the board.
<1>3. ASSUME phase \in {"sticky", "balls"}, Commit, UNCHANGED threadVars
      PROVE  Single' /\ done' = Board'
  BY <1>2, <1>3 DEF Commit, Board, Single, BetweenCalls, DoneTypeOK, SimInv, SimTypeOK,
                    threadVars, arguments
<1>4. ASSUME NEW i \in Xs, NEW j \in Xs, DrawSticky(i, j)
      PROVE  Single' /\ [Completed!BoardNext]_(Completed!boardVars)
  <2>1. /\ phase = "sticky" /\ Commit /\ UNCHANGED threadVars /\ MakeSticky(i, j)
    BY <1>4 DEF DrawSticky
  <2>2. Single' /\ done' = Board'
    BY <1>3, <2>1
  <2>3. BetweenCalls
    BY <1>2, <2>1
  <2>4. Completed!MakeSticky(i, j) /\ <<i, j>> \in Cells
    <3>1. /\ <<i, j>> \in Cells /\ <<i, j>> \notin sticky /\ Cardinality(sticky) < NSticky
          /\ sticky' = sticky \cup {<<i, j>>}
          /\ UNCHANGED <<width, height, balls, ballAt, x, y, dx, dy>>
      BY <2>1 DEF MakeSticky, EmptyType, OnBoard, size
    <3>2. /\ done'.sticky = sticky' /\ done'.balls = balls' /\ done'.ballAt = ballAt'
          /\ done'.x = x' /\ done'.y = y' /\ done'.dx = dx' /\ done'.dy = dy'
      BY <2>2 DEF Board
    <3>3. Completed!EmptyType(i, j)
      BY <1>1, <3>1, SameBoard DEF Completed!EmptyType, Completed!OnBoard
    <3>4. Completed!Cardinality(done.sticky) = Cardinality(done.sticky)
      BY DEF Completed!Cardinality, Cardinality
    <3> QED BY <1>1, <2>3, <3>1, <3>2, <3>3, <3>4 DEF Completed!MakeSticky, BetweenCalls,
                                                Completed!size
  <2>5. <<i, j>>[1] = i /\ <<i, j>>[2] = j
    OBVIOUS
  <2>6. Completed!BoardNext
    BY <2>4, <2>5, SameBoard DEF Completed!BoardNext
  <2> QED BY <2>2, <2>6
<1>5. ASSUME NEW i \in Xs, NEW j \in Ys, NEW di \in {-1, 1}, NEW dj \in {-1, 1},
             DrawBall(i, j, di, dj)
      PROVE  Single' /\ [Completed!BoardNext]_(Completed!boardVars)
  <2>1. PICK b : b = Cardinality(balls) + 1
    OBVIOUS
  <2>2. /\ phase = "balls" /\ Commit /\ UNCHANGED threadVars /\ b <= NBalls
        /\ Free(i, j) /\ balls' = balls \cup {b}
        /\ x' = [x EXCEPT ![b] = i] /\ y' = [y EXCEPT ![b] = j]
        /\ dx' = [dx EXCEPT ![b] = di] /\ dy' = [dy EXCEPT ![b] = dj]
        /\ ballAt' = [ballAt EXCEPT ![<<i, j>>] = b]
        /\ UNCHANGED <<size, sticky>>
    BY <1>5, <2>1 DEF DrawBall
  <2>3. b \in Balls \ balls
    BY <2>1, <2>2, NextDrawn
  <2>4. Single' /\ done' = Board'
    BY <1>3, <2>2
  <2>5. BetweenCalls /\ <<i, j>> \in Cells
    BY <1>2, <2>2 DEF Cells
  <2>6. Completed!NewBall(b, i, j, di, dj)
    BY <1>1, <2>2, <2>3, <2>4, <2>5, SameBoard DEF Completed!NewBall, BetweenCalls, Free,
       Completed!BallIn, BallIn, Completed!OnBoard, OnBoard, Completed!size, size, Board
  <2>7. <<i, j>>[1] = i /\ <<i, j>>[2] = j
    OBVIOUS
  <2>8. Completed!BoardNext
    BY <2>3, <2>5, <2>6, <2>7, SameBoard DEF Completed!BoardNext
  <2> QED BY <2>4, <2>8
<1>6. CASE StickyDone
  BY <1>6, NothingDone DEF StickyDone, threadVars, arguments
<1>7. CASE Spawn
  BY <1>7, NothingDone DEF Spawn, arguments
<1>8. CASE Redraw
  BY <1>8, NothingDone DEF Redraw, svars, threadVars, arguments
<1> QED BY <1>4, <1>5, <1>6, <1>7, <1>8 DEF SetUp

\* The link between the simulator and the board is there at the start and kept.
LEMMA SingleInit == SInit => Single /\ Completed!BoardInit
<1> SUFFICES ASSUME SInit PROVE Single /\ Completed!BoardInit
  OBVIOUS
<1>1. /\ done.sticky = sticky /\ done.balls = balls /\ done.ballAt = ballAt
      /\ done.x = x /\ done.y = y /\ done.dx = dx /\ done.dy = dy
  BY DEF SInit, Board
<1>2. Completed!BoardInit
  BY <1>1, SameBoard DEF SInit, BoardInit, Completed!BoardInit
<1>3. pc[1] = "check" /\ SimInv
  BY SimInvInit, BoardAssumption DEF SInit, Balls
<1> QED BY <1>1, <1>2, <1>3 DEF Single, BetweenCalls, DoneTypeOK, SimInv, SimTypeOK

\* Every step keeps it, and is a step of the board or none of it.
LEMMA SingleNext ==
    SimInv /\ SimInv' /\ Single /\ [SNext]_svars
        => Single' /\ [Completed!BoardNext]_(Completed!boardVars)
<1> SUFFICES ASSUME SimInv, SimInv', Single, [SNext]_svars
             PROVE  Single' /\ [Completed!BoardNext]_(Completed!boardVars)
  OBVIOUS
<1>1. single' = single /\ UNCHANGED size /\ (~single => UNCHANGED done)
  <2> USE DEF boardVars, threadVars, arguments
  <2>1. CASE SetUp
    BY <2>1 DEF SetUp, DrawSticky, MakeSticky, StickyDone, DrawBall, Spawn, Commit
  <2>2. CASE UNCHANGED svars
    BY <2>2 DEF svars
  <2>3. ASSUME NEW t \in Balls, ThreadStep(t)
        PROVE  single' = single /\ UNCHANGED size /\ (~single => UNCHANGED done)
    <3>1. Return(t) => single' = single /\ (~single => UNCHANGED done)
      BY DEF Return, Commit
    <3> QED BY <2>3, <3>1 DEF ThreadStep, Check, EdgeX, EdgeY, Choose, MeetX, MeetY, Meet,
                              TurnBack, Step, Leave, Enter, Stick, Go
  <2> QED BY <2>1, <2>2, <2>3 DEF SNext, Ended, Redraw
<1>2. CASE ~single
  BY <1>1, <1>2 DEF Single, Completed!boardVars, Completed!size, size
<1>3. CASE single /\ (SetUp \/ Redraw)
  BY <1>3, SetUpImplements
<1>4. ASSUME single, NEW t \in Balls, ThreadStep(t)
      PROVE  Single' /\ [Completed!BoardNext]_(Completed!boardVars)
  BY <1>4, OneThread, SingleThreadStep
<1>5. CASE UNCHANGED svars
  BY <1>5, NothingDone DEF svars, threadVars, arguments
<1> QED BY <1>2, <1>3, <1>4, <1>5 DEF SNext, Ended

\* Whatever board simpong61 -1 sets up and however long it runs, each call of
\* move(), taken apart into its statements, amounts to PongBoard's move or does
\* nothing, and so does each draw of the set-up.
THEOREM SimulatorImplementsBoard == SSpec => ImplementsBoard
<1>1. SInit => SimInv /\ Single /\ Completed!BoardInit
  BY SimInvInit, SingleInit
<1>2. SimInv /\ [SNext]_svars => SimInv'
  BY SimInvNext
<1> QED BY <1>1, <1>2, SingleNext, PTL DEF SSpec, ImplementsBoard, Completed!BoardSpec
=============================================================================
