---------------------------- MODULE MCBootSystem ----------------------------
(***************************************************************************)
(* Instances of BootSystem over an image installed before: a file of one   *)
(* segment over the flash of MCLayout, and one of two segments over a      *)
(* larger flash.  That one has nine addresses: up to the flag (3) it is    *)
(* laid out like MCLayout, the application's blocks are 3 to 4 and 5 to 6, *)
(* and 7 and 8 are no flash.                                               *)
(***************************************************************************)
EXTENDS BootSystem, MCLayout

Programmed == Data \cup {Scrambled, AppFlag}

CONSTANTS d0, d1   \* the values of units, old and new

OneSegment == <<[addr |-> 4, data |-> <<d1, d1>>]>>
Old        == [a \in {4, 5} |-> d0]

LargeSegments == {[base |-> 1, size |-> 1], [base |-> 4, size |-> 3]}
LargeBlocks   == {[start |-> 0, end |-> 0], [start |-> 1, end |-> 1],
                  [start |-> 2, end |-> 2], [start |-> 3, end |-> 4],
                  [start |-> 5, end |-> 6]}

\* With SnMod = 2 the second block of the first segment is number 0.
TwoSegments == <<[addr |-> 4, data |-> <<d1, d0>>], [addr |-> 6, data |-> <<d1>>]>>
LargeOld    == [a \in 4 .. 6 |-> d0]

\* The files of the runs hold a whole application.
ASSUME MCAssumption == WholeApplication
=============================================================================
