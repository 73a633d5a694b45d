----------------------------- MODULE MCWeensyOS -----------------------------
(* Small instance of the whole system: two allocators, each with a heap page *)
(* followed by one that is reserved or another's, so that each one's second  *)
(* allocation fails; with the other boot commands one process slot is free.  *)
EXTENDS MemViewer

MCReserved == {0, 8}
MCKernelImage == {2}
MCImage == [n \in Programs |-> IF n = 1 THEN {6} ELSE {3}]
MCStackPage == [pid \in Pids |-> IF pid = 1 THEN 5 ELSE 9]
MCHeapStart == [n \in Programs |-> IF n = 1 THEN 7 ELSE 4]
MCUserPages == Pages
=============================================================================
