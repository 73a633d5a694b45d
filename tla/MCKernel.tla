------------------------------ MODULE MCKernel ------------------------------
(* Small instance of the kernel: user code that leaves the kernel's memory  *)
(* alone and is arbitrary otherwise, two allocators, one free slot or none, *)
(* and as many physical pages as they can use.                              *)
EXTENDS Kernel

MCReserved == {0}
MCKernelImage == {2}
MCImage == [n \in Programs |-> IF n = 1 THEN {5} ELSE {3}]
MCStackPage == [pid \in Pids |-> IF pid = 1 THEN 4 ELSE 6]
MCLabels == {"u"}
MCEntry == [n \in Programs |-> "u"]
MCAfter == [l \in MCLabels |-> l]
MCLocals == {0}
MCUserPages == {1}
=============================================================================
