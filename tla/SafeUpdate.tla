----------------------------- MODULE SafeUpdate -----------------------------
(***************************************************************************)
(* What an update promises its user, whatever happens on the way.  The     *)
(* device starts what it holds: the boot loader waiting for an update, the *)
(* file given to the tool, or something else that is marked bootable.  One *)
(* failure goes unnoticed: the controller does not take the mark of a file *)
(* that is in the flash, whole, and nobody reads the mark back.            *)
(***************************************************************************)
VARIABLES
  boots,  \* "loader", "unmarked", "file" or "other": what the next start will
          \* run; the loader too when the file is there, but for its mark
  told    \* "nothing", "ok" or "failed": what the tool told its user

vars == <<boots, told>>

Init == boots \in {"loader", "other"} /\ told = "nothing"

\* A device that runs nothing becomes bootable with the whole file only.
Commit ==
  /\ told # "ok"
  /\ boots \in {"loader", "unmarked"} /\ boots' = "file"
  /\ UNCHANGED told

\* The whole file is there, and what would have made it bootable is lost.
Miss ==
  /\ told # "ok"
  /\ boots = "loader" /\ boots' = "unmarked"
  /\ UNCHANGED told

\* An update ruins what was there: it is gone, or left in pieces.
Ruin ==
  /\ told # "ok"
  /\ \/ boots \in {"file", "other"} /\ boots' \in {"loader", "other"}
     \/ boots = "unmarked" /\ boots' = "loader"
  /\ UNCHANGED told

\* Success is only told of a device that runs the file, or would if its mark
\* had been taken, and stays true.
TellOk ==
  /\ told = "nothing" /\ boots \in {"file", "unmarked"}
  /\ told' = "ok" /\ UNCHANGED boots

TellFailed ==
  /\ told = "nothing"
  /\ told' = "failed" /\ UNCHANGED boots

StartOver ==
  /\ told # "ok"
  /\ told' = "nothing" /\ UNCHANGED boots

Next == Commit \/ Miss \/ Ruin \/ TellOk \/ TellFailed \/ StartOver

Spec == Init /\ [][Next]_vars
=============================================================================
