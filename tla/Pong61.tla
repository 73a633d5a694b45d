------------------------------- MODULE Pong61 -------------------------------
(***************************************************************************)
(* The pong client, pset6/pong61.cc: main() resets the server's board,     *)
(* then for each position of its ball creates a thread that tells the      *)
(* server over a connection of its own, waits for that thread's signal     *)
(* (the flag move_done, which it polls), and moves the ball. The ball and  *)
(* its board are PongBoard's, a connection is HttpConnection's. There is   *)
(* one connection object here for all of them: InStep shows that no two    *)
(* threads ever have one at the same time, and main() has its own before.  *)
(***************************************************************************)
EXTENDS PongBoard, HttpConnection

CONSTANT Slots      \* bound: threads the system lets exist at once

ASSUME PongAssumption ==
    NBalls = 1 /\ NSticky = 0 /\ Slots \in Nat /\ Slots >= 1

Ball == 1
Threads == 1 .. Slots

VARIABLES
    main,       \* next step of main()
    running,    \* FALSE once any thread has called exit(), or main() has failed
    moveDone,   \* move_done
    thr,        \* each thread's next step
    arg,        \* the position each thread was created with
    served,     \* the last move the server was asked for (<<>>: none)
    requests    \* how many it was asked for, modulo 2

heard == <<served, requests>>
threadVars == <<moveDone, thr, arg, heard>>
pvars == <<boardVars, hvars, main, running, threadVars>>

Position == <<x[Ball], y[Ball]>>
Quit == running' = FALSE

\* What the first byte of a body says: "reset" is answered by sizes, a move by
\* a number that is negative for an error. Anything else reads as neither.
Answers(n) == buf # <<>> /\ buf[1].kind = "byte" /\ buf[1].n = n
Dimensions == 1
Error == 2

-----------------------------------------------------------------------------
PInit ==
    /\ BoardInit /\ HInit
    /\ main = "connect" /\ running = TRUE /\ moveDone = FALSE
    /\ thr = [t \in Threads |-> "none"]
    /\ arg = [t \in Threads |-> <<>>]
    /\ served = <<>> /\ requests = 0

\* A step of the connection, made by the caller that has it. Whoever it is, an
\* error of the socket or a status of 500 and more ends the whole program.
Exchange == Work /\ running' = (pc' # "exited")

Reset == /\ running /\ main = "connect"
         /\ Connect /\ main' = "reset"
         /\ UNCHANGED <<boardVars, running, threadVars>>

ResetExchange == /\ running /\ main = "reset"
                 /\ Exchange
                 /\ UNCHANGED <<boardVars, main, threadVars>>

\* The answer is a width and a height: the board and the ball at 0, 0 going
\* down and right.
ResetDone == /\ running /\ main = "reset"
             /\ status = 200 /\ Answers(Dimensions)
             /\ Close /\ NewBall(Ball, 0, 0, 1, 1)
             /\ main' = "create"
             /\ UNCHANGED <<running, threadVars>>

\* The answer is a bad one.
ResetRefused == /\ running /\ main = "reset"
                /\ pc = "done" /\ ~(status = 200 /\ Answers(Dimensions))
                /\ Quit
                /\ UNCHANGED <<boardVars, hvars, main, threadVars>>

\* The lookup, the connection or the request fails.
ResetFails == /\ running
              /\ \/ main = "connect" /\ UNCHANGED hvars
                 \/ main = "reset" /\ Fails
              /\ Quit
              /\ UNCHANGED <<boardVars, main, threadVars>>

\* th = std::thread(pong_thread, ball.x_, ball.y_); main() exits if it fails.
Create(t) ==
    /\ running /\ main = "create" /\ thr[t] = "none"
    /\ thr' = [thr EXCEPT ![t] = "connect"]
    /\ arg' = [arg EXCEPT ![t] = Position]
    /\ main' = "poll"
    /\ UNCHANGED <<boardVars, hvars, running, moveDone, heard>>

CreateFails ==
    /\ running /\ main = "create" /\ Quit
    /\ UNCHANGED <<boardVars, hvars, main, threadVars>>

\* while (!move_done) usleep(20000);
Poll ==
    /\ running /\ main = "poll" /\ moveDone
    /\ main' = "clear"
    /\ UNCHANGED <<boardVars, hvars, running, threadVars>>

\* Mutant: the flag is left up.
Clear_Not ==
    /\ running /\ main = "clear"
    /\ main' = "move"
    /\ UNCHANGED <<boardVars, hvars, running, threadVars>>

Clear ==
    /\ running /\ main = "clear"
    /\ moveDone' = FALSE /\ main' = "move"
    /\ UNCHANGED <<boardVars, hvars, running, thr, arg, heard>>

\* while (!ball.move()) {}: each attempt is a step.
MoveBall ==
    /\ running /\ main = "move"
    /\ Move(Ball)
    /\ main' = IF UNCHANGED <<x, y>> THEN "move" ELSE "create"
    /\ UNCHANGED <<hvars, running, threadVars>>

-----------------------------------------------------------------------------
(* pong_thread(x, y)                                                       *)

AtThread(t, s) == running /\ thr[t] = s
Next(t, s) == thr' = [thr EXCEPT ![t] = s]
MainUnchanged == UNCHANGED <<boardVars, main, arg>>

\* Mutant: the signal comes before the request.
Request_Eager(t) ==
    /\ AtThread(t, "connect") /\ Next(t, "exchange")
    /\ Connect /\ moveDone' = TRUE
    /\ MainUnchanged /\ UNCHANGED <<running, heard>>

\* http_connect()
Request(t) ==
    /\ AtThread(t, "connect") /\ Next(t, "exchange")
    /\ Connect
    /\ MainUnchanged /\ UNCHANGED <<running, moveDone, heard>>

\* send_request(), receive_response_headers() and receive_response_body(): the
\* server hears of the position when the whole request is sent.
ThreadExchange(t) ==
    /\ AtThread(t, "exchange")
    /\ Exchange
    /\ IF pc = "send" /\ pc' # pc
       THEN served' = arg[t] /\ requests' = 1 - requests
       ELSE UNCHANGED heard
    /\ MainUnchanged /\ UNCHANGED <<thr, moveDone>>

\* No status but 500 and more ends the thread, nor a connection that broke:
\* only an answer below zero, from whatever is in the buffer.
ThreadClose(t) ==
    /\ AtThread(t, "exchange") /\ Next(t, "signal")
    /\ ~Answers(Error) /\ Close
    /\ MainUnchanged /\ UNCHANGED <<running, moveDone, heard>>

\* Such an answer: exit(1), whatever main() is doing.
ThreadRefused(t) ==
    /\ AtThread(t, "exchange") /\ pc = "done" /\ Answers(Error) /\ Quit
    /\ UNCHANGED hvars
    /\ MainUnchanged /\ UNCHANGED <<thr, moveDone, heard>>

\* No connection, or a socket's error: exit(1) again.
ThreadFails(t) ==
    /\ \/ AtThread(t, "connect") /\ UNCHANGED hvars
       \/ AtThread(t, "exchange") /\ Fails
    /\ Quit
    /\ MainUnchanged /\ UNCHANGED <<thr, moveDone, heard>>

\* move_done = true, the thread's last act.
Signal(t) ==
    /\ AtThread(t, "signal") /\ Next(t, "none")
    /\ moveDone' = TRUE
    /\ UNCHANGED <<boardVars, hvars, main, arg, running, heard>>

Exited == ~running /\ UNCHANGED pvars

-----------------------------------------------------------------------------
MainStep ==
    \/ Reset \/ ResetExchange \/ ResetDone \/ ResetRefused
    \/ (\E t \in Threads : Create(t)) \/ Poll \/ Clear \/ MoveBall

ThreadStep(t) ==
    \/ Request(t) \/ ThreadExchange(t) \/ ThreadClose(t) \/ ThreadRefused(t)
    \/ Signal(t)

PNext ==
    \/ MainStep \/ ResetFails \/ CreateFails
    \/ \E t \in Threads : ThreadStep(t) \/ ThreadFails(t)
    \/ Exited

PSpec == PInit /\ [][PNext]_pvars

\* The scheduler runs main() and every thread, usleep() returns, and a read
\* from the server ends in an answer or the end of the connection.
PFairSpec ==
    PSpec /\ WF_pvars(MainStep) /\ \A t \in Threads : WF_pvars(ThreadStep(t))

-----------------------------------------------------------------------------
(* Properties.                                                             *)

Active == {t \in Threads : thr[t] # "none"}

\* main() and its threads stay in step although they share only a flag that one
\* polls: there is at most one thread, it is there only while main() waits for
\* it, and the ball does not leave the position it is reporting.
InStep ==
    \A t \in Active :
        /\ main = "poll" /\ ~moveDone
        /\ Active = {t} /\ arg[t] = Position

Apart(i, j) == i - j \in {-1, 1}

\* The server hears of every position once and in the order the ball takes them,
\* however long threads and answers take: a request is for the position the ball
\* is at, one cell along each axis from the last request's, so none is repeated;
\* and the ball moves on only from a position the server has heard of.
ServerSeesPath ==
    [][/\ requests' # requests =>
             /\ served' = Position
             /\ IF served = <<>> THEN Position = <<0, 0>>
                ELSE /\ Apart(Position[1], served[1])
                     /\ Apart(Position[2], served[2])
       /\ main = "move" /\ Position' # Position => served = Position]_pvars

\* On a board of two rows and columns or more the game goes on: unless the
\* program exits, there is another request after each, for ever. No signal is
\* lost, no attempt to move the ball repeats without end, and every exchange
\* comes to its end: at the announced length, also when the server keeps the
\* connection open, and else at the end of the connection.
GameGoesOn ==
    width >= 2 /\ height >= 2 =>
        []<>(~running \/ \E t \in Threads : thr[t] = "connect")
=============================================================================
