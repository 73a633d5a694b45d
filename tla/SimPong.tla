------------------------------ MODULE SimPong ------------------------------
(***************************************************************************)
(* The pong simulator, pset6/simpong61.cc: main() sets the board up at     *)
(* random, then either runs every ball itself (-1) or starts one thread    *)
(* per ball. The balls' threads share the board with no lock, so here      *)
(* move() is a sequence of steps, one per statement of pongboard.hh that   *)
(* reads or writes what another thread writes. The board's state is        *)
(* PongBoard's; module PongBoard's Move is what a whole call amounts to    *)
(* when nobody interferes.                                                 *)
(***************************************************************************)
EXTENDS PongBoard

\* Arguments the program may be run with: the board's size, whether -1 is
\* given, and the number of sticky cells.
CONSTANT Arguments

\* What main() checks of its arguments, and one ball at least: with none,
\* balls[0] does not exist.
ASSUME ArgumentAssumption ==
    /\ Arguments \subseteq Sizes \X BOOLEAN \X (0 .. NSticky)
    /\ \A a \in Arguments :
          LET w == a[1][1]
              h == a[1][2]
          IN  w >= 2 /\ h >= 2 /\ NBalls < w * h /\ a[3] < w * h

Phases == {"sticky", "balls", "threads", "run", "aborted", "crashed"}
Steps == {"check", "edgeX", "edgeY", "next", "meetX", "meetY", "reverse",
          "advance", "leave", "enter", "stick"}

VARIABLES
    single,     \* single_threaded
    nsticky,    \* nsticky
    phase,      \* how far main() is, or how the program ended
    started,    \* threads that run
    pc,         \* next step of each thread's move()
    turn,       \* ball each thread is moving
    from, to,   \* cur_cell and next_cell of that call, as positions
    done        \* the board after the last completed call (single-threaded)

\* Threads of the run; the modelled threads are numbered like the balls.
Threads == IF single THEN {1} ELSE Balls

arguments == <<single, nsticky>>
threadVars == <<arguments, started, pc, turn, from, to>>
svars == <<boardVars, phase, threadVars, done>>

Board == [sticky |-> sticky, balls |-> balls, ballAt |-> ballAt,
          x |-> x, y |-> y, dx |-> dx, dy |-> dy]

\* `done' follows the board except in the middle of a call; it is only looked
\* at, never used, and kept only where it means something.
Commit == done' = IF single THEN Board' ELSE done

-----------------------------------------------------------------------------
(* Set-up. Each draw of a position is a step; one that is refused is drawn *)
(* again.                                                                  *)

\* The rows main() draws sticky cells from: random_int(0, width - 1).
StickyRows == Xs

DrawSticky(i, j) ==
    /\ phase = "sticky" /\ Cardinality(sticky) < nsticky
    /\ j \in StickyRows
    /\ MakeSticky(i, j)
    /\ Commit
    /\ UNCHANGED <<phase, threadVars>>

StickyDone ==
    /\ phase = "sticky" /\ Cardinality(sticky) = nsticky
    /\ phase' = "balls"
    /\ UNCHANGED <<boardVars, threadVars, done>>

Free(i, j) == BallIn(i, j) = NoBall

\* new pong_ball(...) in a cell without a ball: balls are numbered from 1.
DrawBall(i, j, di, dj) ==
    LET b == Cardinality(balls) + 1
    IN  /\ phase = "balls" /\ b <= NBalls
        /\ Free(i, j)
        /\ balls' = balls \cup {b}
        /\ x' = [x EXCEPT ![b] = i] /\ y' = [y EXCEPT ![b] = j]
        /\ dx' = [dx EXCEPT ![b] = di] /\ dy' = [dy EXCEPT ![b] = dj]
        /\ ballAt' = [ballAt EXCEPT ![<<i, j>>] = b]
        /\ UNCHANGED <<size, sticky>>
        /\ Commit
        /\ UNCHANGED <<phase, threadVars>>

\* A position that is taken, or off the board, is drawn in vain.
Redraw ==
    /\ \/ /\ phase = "sticky" /\ Cardinality(sticky) < nsticky
          /\ \E i \in Xs, j \in StickyRows : ~EmptyType(i, j)
       \/ /\ phase = "balls" /\ balls # Balls
          /\ \E i \in Xs, j \in Ys : ~Free(i, j)
    /\ UNCHANGED svars

\* The main thread runs the first ball, or all of them, once the threads of
\* the others have been created.
Spawn ==
    /\ \/ phase = "balls" /\ balls = Balls
       \/ phase = "threads"
    /\ LET rest == Threads \ (started \cup {1})
       IN  IF rest = {}
           THEN phase' = "run" /\ started' = started \cup {1}
           ELSE /\ phase' = "threads"
                /\ started' = started \cup
                      {CHOOSE t \in rest : \A u \in rest : t <= u}
    /\ UNCHANGED <<boardVars, arguments, pc, turn, from, to, done>>

-----------------------------------------------------------------------------
(* move(), called by thread t on ball b == turn[t].                        *)

At(t, s) ==
    /\ phase \in {"threads", "run"} /\ t \in started /\ pc[t] = s
Go(t, s) ==
    /\ pc' = [pc EXCEPT ![t] = s]
    /\ UNCHANGED <<phase, arguments, started, turn, from, to>>

NextBall(t) == IF single THEN (turn[t] % NBalls) + 1 ELSE turn[t]
\* Return to the loop of ball_thread(), or of main() over all balls.
Return(t) ==
    /\ pc' = [pc EXCEPT ![t] = "check"]
    /\ turn' = [turn EXCEPT ![t] = NextBall(t)]
    /\ from' = [from EXCEPT ![t] = <<0, 0>>] /\ to' = [to EXCEPT ![t] = <<0, 0>>]
    /\ UNCHANGED <<phase, arguments, started>>
    /\ Commit

\* assert(cur_cell.ball_ == this), and the test for a stopped ball.
Check(t) ==
    LET b == turn[t]
    IN  /\ At(t, "check")
        /\ UNCHANGED boardVars
        /\ \/ /\ BallIn(x[b], y[b]) # b
              /\ phase' = "aborted"
              /\ UNCHANGED <<threadVars, done>>
           \/ BallIn(x[b], y[b]) = b /\ Stopped(b) /\ Return(t)
           \/ /\ BallIn(x[b], y[b]) = b /\ ~Stopped(b)
              /\ pc' = [pc EXCEPT ![t] = "edgeX"]
              /\ from' = [from EXCEPT ![t] = <<x[b], y[b]>>]
              /\ UNCHANGED <<phase, arguments, started, turn, to, done>>

\* Mutant: the edge is not looked at.
EdgeX_Skipped(t) ==
    /\ At(t, "edgeX") /\ Go(t, "edgeY")
    /\ UNCHANGED <<boardVars, done>>

EdgeX(t) ==
    /\ At(t, "edgeX") /\ Go(t, "edgeY")
    /\ dx' = [dx EXCEPT ![turn[t]] = BounceX(turn[t])]
    /\ UNCHANGED <<size, sticky, balls, ballAt, x, y, dy, done>>

EdgeY(t) ==
    /\ At(t, "edgeY") /\ Go(t, "next")
    /\ dy' = [dy EXCEPT ![turn[t]] = BounceY(turn[t])]
    /\ UNCHANGED <<size, sticky, balls, ballAt, x, y, dx, done>>

\* Choose next_cell and what to do about it.
Choose(t) ==
    LET b == turn[t]
        i == x[b] + dx[b]
        j == y[b] + dy[b]
    IN  /\ At(t, "next")
        /\ to' = [to EXCEPT ![t] = <<i, j>>]
        /\ pc' = [pc EXCEPT ![t] =
                    IF BallIn(i, j) # NoBall THEN "meetX"
                    ELSE IF ~OnBoard(i, j) THEN "reverse" ELSE "advance"]
        /\ UNCHANGED <<boardVars, phase, arguments, started, turn, from, done>>

\* The two halves of a collision. Each reads next_cell.ball_ again: if it has
\* gone in between, the program follows a null pointer.
Meet(t, s, d, dNew, Then) ==
    LET other == BallIn(to[t][1], to[t][2])
    IN  /\ At(t, s)
        /\ IF other = NoBall
           THEN /\ phase' = "crashed" /\ dNew = d
                /\ UNCHANGED <<threadVars, done>>
           ELSE dNew = Exchanged(d, turn[t], other, d[turn[t]]) /\ Then

MeetX(t) ==
    /\ UNCHANGED <<size, sticky, balls, ballAt, x, y, dy>>
    /\ Meet(t, "meetX", dx, dx', Go(t, "meetY") /\ UNCHANGED done)

MeetY(t) ==
    /\ UNCHANGED <<size, sticky, balls, ballAt, x, y, dx>>
    /\ Meet(t, "meetY", dy, dy', Return(t))

TurnBack(t) ==
    LET b == turn[t]
    IN  /\ At(t, "reverse")
        /\ dx' = [dx EXCEPT ![b] = -dx[b]] /\ dy' = [dy EXCEPT ![b] = -dy[b]]
        /\ UNCHANGED <<size, sticky, balls, ballAt, x, y>>
        /\ Return(t)

Step(t) ==
    LET b == turn[t]
    IN  /\ At(t, "advance") /\ Go(t, "leave")
        /\ x' = [x EXCEPT ![b] = x[b] + dx[b]]
        /\ y' = [y EXCEPT ![b] = y[b] + dy[b]]
        /\ UNCHANGED <<size, sticky, balls, ballAt, dx, dy, done>>

\* Mutant: the ball is entered before it has left.
Leave_Late(t) ==
    /\ At(t, "leave") /\ Go(t, "enter")
    /\ UNCHANGED <<boardVars, done>>

Leave(t) ==
    /\ At(t, "leave") /\ Go(t, "enter")
    /\ ballAt' = [ballAt EXCEPT ![from[t]] = NoBall]
    /\ UNCHANGED <<size, sticky, balls, x, y, dx, dy, done>>

Enter(t) ==
    /\ At(t, "enter") /\ Go(t, "stick")
    /\ ballAt' = [ballAt EXCEPT ![to[t]] = turn[t]]
    /\ UNCHANGED <<size, sticky, balls, x, y, dx, dy, done>>

Stick(t) ==
    LET b == turn[t]
        stop == to[t] \in sticky
    IN  /\ At(t, "stick")
        /\ dx' = [dx EXCEPT ![b] = IF stop THEN 0 ELSE dx[b]]
        /\ dy' = [dy EXCEPT ![b] = IF stop THEN 0 ELSE dy[b]]
        /\ UNCHANGED <<size, sticky, balls, ballAt, x, y>>
        /\ Return(t)

ThreadStep(t) ==
    \/ Check(t) \/ EdgeX(t) \/ EdgeY(t) \/ Choose(t) \/ MeetX(t) \/ MeetY(t)
    \/ TurnBack(t) \/ Step(t) \/ Leave(t) \/ Enter(t) \/ Stick(t)

Ended == phase \in {"aborted", "crashed"} /\ UNCHANGED svars

-----------------------------------------------------------------------------
SInit ==
    /\ BoardInit
    /\ single \in BOOLEAN /\ nsticky \in 0 .. NSticky
    /\ <<size, single, nsticky>> \in Arguments
    /\ phase = "sticky" /\ started = {}
    /\ pc = [t \in Balls |-> "check"]
    /\ turn = [t \in Balls |-> t]
    /\ from = [t \in Balls |-> <<0, 0>>] /\ to = [t \in Balls |-> <<0, 0>>]
    /\ done = Board

SetUp ==
    \/ \E i \in Xs, j \in Xs : DrawSticky(i, j)
    \/ StickyDone
    \/ \E i \in Xs, j \in Ys, di, dj \in {-1, 1} : DrawBall(i, j, di, dj)
    \/ Spawn

SNext == SetUp \/ Redraw \/ (\E t \in Balls : ThreadStep(t)) \/ Ended

SSpec == SInit /\ [][SNext]_svars

\* main() goes on as long as a draw can succeed (random numbers name every
\* position again and again), and the scheduler lets every thread run.
SFairSpec ==
    SSpec /\ WF_svars(SetUp) /\ \A t \in Balls : WF_svars(ThreadStep(t))

-----------------------------------------------------------------------------
(* Properties.                                                             *)

\* Single-threaded, the simulator implements the board: each call of move(),
\* taken apart and put together again, is PongBoard's Move or does nothing.
\* (With threads, `done' stands still: they implement nothing of the kind.)
Completed == INSTANCE PongBoard WITH
    sticky <- done.sticky, balls <- done.balls, ballAt <- done.ballAt,
    x <- done.x, y <- done.y, dx <- done.dx, dy <- done.dy
ImplementsBoard == Completed!BoardSpec

\* move() asserts "that this ball is stored in the board correctly".
AssertionHolds == phase # "aborted"

\* However the threads race, no ball is ever stored in two cells at once. This
\* is about the cells in one state, not about what SIGUSR1 prints: its handler
\* looks at one cell after the other while the threads go on, "in a
\* thread-unsafe way" (simpong61.cc:63-98), and may count a ball twice or miss it.
NoDoubles ==
    \A c, d \in Cells : ballAt[c] # NoBall /\ ballAt[c] = ballAt[d] => c = d

\* main()'s checks of "size invariants" let it finish what it sets up: there
\* is room for the sticky cells and the balls, and the simulation starts.
SetupEnds == <>(phase \notin {"sticky", "balls"})
=============================================================================
