----------------------------- MODULE MCSimPong -----------------------------
(* Small runs of SimPong: single-threaded on a square board, on one higher   *)
(* than wide and on one that is nearly full, and with a thread per ball.     *)
EXTENDS SimPong

MCSizes == {<<3, 3>>, <<3, 2>>, <<2, 3>>, <<2, 2>>}
MCArguments == {<<<<3, 3>>, TRUE, 1>>, <<<<2, 3>>, TRUE, 1>>,
                <<<<2, 2>>, TRUE, 3>>, <<<<3, 2>>, FALSE, 0>>,
                <<<<2, 2>>, FALSE, 1>>}
RaceArguments == {<<<<3, 2>>, FALSE, 0>>}
HighArguments == {<<<<2, 3>>, TRUE, 5>>}
=============================================================================
