------------------------------ MODULE MCPong61 ------------------------------
(* Small boards, one of them narrow, and responses of the shapes the parser   *)
(* tells apart: with and without a length, with one announced twice, with too *)
(* much, just enough or too little of a body, with empty lines in it, without *)
(* an empty line and without a status line, and an error in the body.         *)
EXTENDS Pong61

MCSizes == {<<3, 2>>, <<1, 2>>}

U(kind, n) == [kind |-> kind, n |-> n]
EOL == U("eol", 0)
B(n) == U("byte", n)
Line(kind, n) == <<U(kind, n), EOL>>
StatusLine == Line("status", 200)

MCResponses ==
    {StatusLine \o fields \o <<EOL>> \o body :
         fields \in {<<>>, Line("length", 2), Line("length", 0) \o Line("length", 1)},
         body \in {<<>>, <<B(1)>>, <<B(1), EOL, EOL, B(0)>>}}
        \cup {Line("status", 503) \o <<EOL>>, Line("status", 404) \o <<EOL>>,
              StatusLine \o Line("header", 0), StatusLine \o <<EOL, B(2)>>,
              Line("header", 0) \o StatusLine \o <<EOL>>, <<>>}
=============================================================================
