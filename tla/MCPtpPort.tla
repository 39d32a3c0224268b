------------------------------ MODULE MCPtpPort ------------------------------
(***************************************************************************)
(* Three masters for PtpPort: two better than our clock, one of them of    *)
(* changing rank, and one that is as good as the second at its best.       *)
(***************************************************************************)
EXTENDS PtpPort

Announced(s, q) == [src |-> s, gm |-> s, rank |-> q, steps |-> 0]

ThreeMasters ==
  {Announced(1, 1), Announced(2, 2), Announced(2, 4), Announced(4, 2)}
=============================================================================
