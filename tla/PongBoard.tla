----------------------------- MODULE PongBoard -----------------------------
(***************************************************************************)
(* The board of pset6/pongboard.hh as an object: its constructor, the      *)
(* marking of sticky cells, the constructor of a ball and pong_ball::move, *)
(* each as one step. This is what the board promises to a caller that makes *)
(* one call at a time; module SimPong breaks move() up into the accesses    *)
(* of the threads that call it.                                            *)
(***************************************************************************)
EXTENDS Integers, FiniteSets

CONSTANTS
    Sizes,              \* widths and heights a board may be created with
    NBalls,             \* balls the caller creates at most
    NSticky             \* cells the caller makes sticky at most

\* Any board with a cell and a ball: pong61 plays on whatever its server
\* answers, down to one row or column; simpong61 insists on more.
ASSUME BoardAssumption ==
    /\ Sizes \subseteq (Nat \ {0}) \X (Nat \ {0})
    /\ NBalls \in Nat /\ 1 <= NBalls
    /\ NSticky \in Nat

Balls == 1 .. NBalls
NoBall == 0                     \* nullptr

VARIABLES
    width, height,      \* width_, height_
    sticky,     \* cells whose type_ is cell_sticky
    balls,      \* balls constructed so far
    ballAt,     \* cells_[...].ball_
    x, y,       \* x_, y_ of each ball
    dx, dy      \* dx_, dy_ of each ball

size == <<width, height>>
boardVars == <<size, sticky, balls, ballAt, x, y, dx, dy>>

Xs == 0 .. width - 1
Ys == 0 .. height - 1
Cells == Xs \X Ys

\* cell(x, y): off the board it is obstacle_cell_, the only obstacle.
OnBoard(i, j) == <<i, j>> \in Cells
BallIn(i, j) == IF OnBoard(i, j) THEN ballAt[<<i, j>>] ELSE NoBall
EmptyType(i, j) == OnBoard(i, j) /\ <<i, j>> \notin sticky

-----------------------------------------------------------------------------
BoardInit ==
    /\ \E s \in Sizes : width = s[1] /\ height = s[2]
    /\ sticky = {} /\ balls = {}
    /\ ballAt = [c \in Cells |-> NoBall]
    /\ x = [b \in Balls |-> 0] /\ y = [b \in Balls |-> 0]
    /\ dx = [b \in Balls |-> 0] /\ dy = [b \in Balls |-> 0]

MakeSticky(i, j) ==
    /\ EmptyType(i, j)
    /\ Cardinality(sticky) < NSticky
    /\ sticky' = sticky \cup {<<i, j>>}
    /\ UNCHANGED <<size, balls, ballAt, x, y, dx, dy>>

\* pong_ball(board, i, j, di, dj): the callers choose a cell without a ball
\* and a diagonal direction.
NewBall(b, i, j, di, dj) ==
    /\ b \in Balls \ balls /\ OnBoard(i, j) /\ BallIn(i, j) = NoBall
    /\ di \in {-1, 1} /\ dj \in {-1, 1}
    /\ balls' = balls \cup {b}
    /\ x' = [x EXCEPT ![b] = i] /\ y' = [y EXCEPT ![b] = j]
    /\ dx' = [dx EXCEPT ![b] = di] /\ dy' = [dy EXCEPT ![b] = dj]
    /\ ballAt' = [ballAt EXCEPT ![<<i, j>>] = b]
    /\ UNCHANGED <<size, sticky>>

(* pong_ball::move()                                                       *)

Stopped(b) == dx[b] = 0 /\ dy[b] = 0

\* Directions after the board's edges have been looked at.
BounceX(b) == IF OnBoard(x[b] + dx[b], y[b]) THEN dx[b] ELSE -dx[b]
BounceY(b) == IF OnBoard(x[b], y[b] + dy[b]) THEN dy[b] ELSE -dy[b]

\* Mutant: the balls swap their directions.
Exchanged_Swap(d, b, c, mine) == [d EXCEPT ![b] = d[c], ![c] = mine]

\* One component of a collision of b, going `mine', with c: if they differ, c
\* takes b's direction and b turns round.
Exchanged(d, b, c, mine) ==
    IF d[c] # mine THEN [d EXCEPT ![b] = -mine, ![c] = mine]
    ELSE [d EXCEPT ![b] = mine]

Collide(b, c) ==
    /\ dx' = Exchanged(dx, b, c, BounceX(b))
    /\ dy' = Exchanged(dy, b, c, BounceY(b))
    /\ UNCHANGED <<ballAt, x, y>>

Reverse(b) ==
    /\ dx' = [dx EXCEPT ![b] = -BounceX(b)]
    /\ dy' = [dy EXCEPT ![b] = -BounceY(b)]
    /\ UNCHANGED <<ballAt, x, y>>

\* Mutant: the cell the ball leaves keeps its pointer.
BoardAfter_NotLeft(b, to) == [ballAt EXCEPT ![to] = b]

BoardAfter(b, to) == [ballAt EXCEPT ![<<x[b], y[b]>>] = NoBall, ![to] = b]

Advance(b, i, j) ==
    /\ x' = [x EXCEPT ![b] = i] /\ y' = [y EXCEPT ![b] = j]
    /\ ballAt' = BoardAfter(b, <<i, j>>)
    /\ dx' = [dx EXCEPT ![b] = IF <<i, j>> \in sticky THEN 0 ELSE BounceX(b)]
    /\ dy' = [dy EXCEPT ![b] = IF <<i, j>> \in sticky THEN 0 ELSE BounceY(b)]

NextX(b) == x[b] + BounceX(b)
NextY(b) == y[b] + BounceY(b)

\* The three ways a moving ball's turn can end.
Turn(b) ==
    LET i == NextX(b)
        j == NextY(b)
    IN  \/ BallIn(i, j) # NoBall /\ Collide(b, BallIn(i, j))
        \/ ~OnBoard(i, j) /\ Reverse(b)
        \/ OnBoard(i, j) /\ BallIn(i, j) = NoBall /\ Advance(b, i, j)

\* move(). Its assertion is the invariant Stored below.
Move(b) ==
    /\ b \in balls /\ ~Stopped(b)       \* a stopped ball: nothing to do
    /\ Turn(b)
    /\ UNCHANGED <<size, sticky, balls>>

BoardNext ==
    \/ \E c \in Cells : MakeSticky(c[1], c[2])
    \/ \E b \in Balls, c \in Cells, di, dj \in {-1, 1} : NewBall(b, c[1], c[2], di, dj)
    \/ \E b \in Balls : Move(b)

BoardSpec == BoardInit /\ [][BoardNext]_boardVars

-----------------------------------------------------------------------------
(* Properties.                                                             *)

BoardTypeOK ==
    /\ size \in Sizes
    /\ sticky \subseteq Cells /\ balls \subseteq Balls
    /\ ballAt \in [Cells -> Balls \cup {NoBall}]
    /\ x \in [Balls -> Xs] /\ y \in [Balls -> Ys]
    /\ dx \in [Balls -> -1 .. 1] /\ dy \in [Balls -> -1 .. 1]

\* move()'s assertion, "this ball is stored in the board correctly", for every
\* ball at once, and its converse: no cell names a ball that is elsewhere.
Stored ==
    /\ \A b \in balls : ballAt[<<x[b], y[b]>>] = b
    /\ \A c \in Cells : ballAt[c] # NoBall =>
          ballAt[c] \in balls /\ c = <<x[ballAt[c]], y[ballAt[c]]>>

\* A ball moves along both axes or along none, however often it has bounced,
\* collided, stuck or been knocked loose; and it stands still only where it
\* stuck: no collision stops a ball elsewhere or leaves it half stopped.
StoppedOnSticky ==
    \A b \in balls :
        /\ dx[b] = 0 <=> dy[b] = 0
        /\ Stopped(b) => <<x[b], y[b]>> \in sticky

\* With at least two columns and rows, looking at both edges first always
\* leaves a next cell on the board: move()'s last resort, reversing in front
\* of an obstacle, is never needed by a caller that makes one call at a time.
NeverBlocked ==
    width >= 2 /\ height >= 2 =>
        \A b \in balls : OnBoard(NextX(b), NextY(b))

\* On a board one cell wide or high it is all that ever happens: no ball moves,
\* however often it is told to, and a caller that repeats move() until it
\* succeeds (pong61.cc:391, which accepts such a board) repeats it for ever.
NarrowStuck ==
    [][width = 1 \/ height = 1 =>
        \A b \in balls : x'[b] = x[b] /\ y'[b] = y[b]]_boardVars

\* Balls keep to the diagonals: whatever happens to it, a ball stays on cells
\* of the colour it was placed on, as on a chess board.
SameColour ==
    [][\A b \in balls : (x'[b] + y'[b]) % 2 = (x[b] + y[b]) % 2]_boardVars

\* A collision sets a resting ball moving and never stops one: only a sticky
\* cell takes a ball's motion away, and only that ball's own.
MotionKept ==
    [][\A b \in balls : ~Stopped(b) /\ Stopped(b)' =>
          /\ <<x'[b], y'[b]>> \in sticky
          /\ <<x'[b], y'[b]>> # <<x[b], y[b]>>
          /\ \A c \in balls \ {b} : x'[c] = x[c] /\ y'[c] = y[c]]_boardVars

\* The inductive invariant behind them.
BoardInv == BoardTypeOK /\ Stored /\ StoppedOnSticky
=============================================================================
