------------------------------ MODULE MCIoEmul ------------------------------
(* IoEmul for TLC: two handlers that overlap the keyboard's ports from both *)
(* sides, and accesses at the edges of the ranges.                         *)
EXTENDS IoEmul

MCExtra == [s \in {"io", "mmio"} |->
               IF s = "io" THEN {PortRange(96, 5, "extA"), PortRange(98, 1, "extB")} ELSE {PortRange(98, 1, "extB")}]
MCAddress == [s \in {"io", "mmio"} |-> IF s = "io" THEN {98, 101} ELSE {98}]
=============================================================================
