---------------------------- MODULE MCStructures ----------------------------
(* The two data structures that others are built on, the page tables and the  *)
(* pong board, each under calls in any order: one of them is called in a      *)
(* behaviour, and the other stays in its initial state. The tables have three *)
(* levels of two entries, and too few pages for every table, fewer still when *)
(* there is a large page, each page of which may have been asked to go; the   *)
(* boards are small, and one of them is narrow.                               *)
EXTENDS PageTable, PongBoard

VARIABLE called

MCPerms == {{}, {"P", "U"}}
MCSizes == {<<3, 2>>, <<1, 3>>}
MCTablesBesideLarge == 3

MCInit == /\ called \in {"tables", "board"}
          /\ TInit /\ BoardInit
          /\ called = "tables" => size = <<1, 3>>
          /\ called = "board" => memory[Root][Fan - 1] = Empty

MCNext == \/ /\ called = "tables" /\ TNext /\ UNCHANGED <<called, boardVars>>
             /\ memory[Root][Fan - 1] = Large => used' <= MCTablesBesideLarge
          \/ called = "board" /\ BoardNext /\ UNCHANGED <<called, tvars>>

MCSpec ==
    /\ MCInit /\ [][MCNext]_<<called, tvars, boardVars>>
    /\ TFairness
=============================================================================
