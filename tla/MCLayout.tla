------------------------------ MODULE MCLayout ------------------------------
(***************************************************************************)
(* A flash of eight addresses laid out like the device's: a block below    *)
(* the programmable ones (0), the first segment (1), the bootloader (2),   *)
(* the block that holds the application flag and the first unit of the     *)
(* application (3 and 4), a second application block (5), and no flash at  *)
(* 6 and 7.                                                                *)
(***************************************************************************)
MCSegments == {[base |-> 1, size |-> 1], [base |-> 4, size |-> 2]}
MCBlocks   == {[start |-> 0, end |-> 0], [start |-> 1, end |-> 1],
               [start |-> 2, end |-> 2], [start |-> 3, end |-> 4],
               [start |-> 5, end |-> 5]}
=============================================================================
