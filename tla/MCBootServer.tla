---------------------------- MODULE MCBootServer ----------------------------
(***************************************************************************)
(* Instances of BootServer, with any clients, over the flash of MCLayout   *)
(* or over a smaller one of six addresses: a block below the programmable  *)
(* ones (0), the bootloader (1), the block that holds the application flag *)
(* and a unit of the application (2 and 3), a segment that begins at that  *)
(* unit and has room for another (3 and 4), and no flash at 4 and 5.       *)
(***************************************************************************)
EXTENDS BootServer, MCLayout

Programmed == Data \cup {Scrambled, AppFlag}

SmallSegments == {[base |-> 3, size |-> 2]}
SmallBlocks   == {[start |-> 0, end |-> 0], [start |-> 1, end |-> 1],
                  [start |-> 2, end |-> 3]}

\* Over MCLayout: the whole application, and its second block.
AppRanges == {<<4, 2>>, <<5, 1>>}
\* Over MCLayout: the application, and a range that the check refuses.
SomeLoads == {<<4, 2>>, <<2, 1>>}

\* Accepted, begins where no flash is, and wraps to address 0.
Wrapping == <<5, 2>>
\* Accepted, and no flash at all.
Outside == <<5, 1>>
\* The bootloader: refused.
Loader == <<1, 1>>

\* The block of the flag and the image; the ranges beside it.
FlagErases == {<<3, 1>>, Wrapping, Outside, Loader}
FlagLoads  == {<<3, 1>>, Loader}
\* Only ranges that begin outside the segment.
WrapRanges == {Wrapping, Loader}
=============================================================================
