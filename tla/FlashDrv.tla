------------------------------ MODULE FlashDrv ------------------------------
(***************************************************************************)
(* The flash and its driver: flash_write and flash_erase of                *)
(* sample_boot/flash_drv.c over FLASH_DRV_BlankCheck, _Program,            *)
(* _CheckProgramStatus, _Erase and _CheckEraseStatus of the C55 driver.    *)
(*                                                                         *)
(* The module gives the outcomes of each driver call as actions on the     *)
(* content of the flash; BootServer says who calls them and when.  An      *)
(* address stands for one programmable unit of the flash.                  *)
(***************************************************************************)
EXTENDS FlashMap

CONSTANTS
  Erased,     \* a unit that reads all ones
  Damaged,    \* a unit left by an interrupted or failed operation
  Programs,   \* the values a unit can be programmed with
  BootCells,  \* the addresses that hold the bootloader itself
  BootCode,   \* what they hold
  Faults      \* the failures considered: "program", "erase", "power"

Content == Programs \cup {Erased, Damaged, BootCode}

ASSUME FlashDrvAssumption ==
  /\ Erased \notin {Damaged, BootCode}
  /\ BootCells \subseteq Cells
  /\ Faults \subseteq {"program", "erase", "power"}

VARIABLES
  flash,   \* the content of every flash address
  ers      \* the blocks under erase: MCR[ERS] is set iff there are any

FlashTypeOK == flash \in [Cells -> Content] /\ ers \subseteq Blocks

\* A device from the factory: blank, the bootloader in its own blocks.
FlashInit ==
  /\ flash = [a \in Cells |-> IF a \in BootCells THEN BootCode ELSE Erased]
  /\ ers = {}

UnderErase == UNION {Span(b) : b \in ers}

(***************************************************************************)
(* What reading f at a returns: anything while the block of a is being     *)
(* erased, and anything where a is no flash.  No operation checks that the *)
(* address it gets is one of the flash's.                                  *)
(***************************************************************************)
Read(f, a) == IF a \in UnderErase \/ a \notin Cells THEN Content ELSE {f[a]}

-----------------------------------------------------------------------------
(* flash_write of one unit, by outcome                                     *)

\* The blank check reads something else than all ones.
WriteRefused(a) == (\E v \in Read(flash, a) : v # Erased) /\ UNCHANGED flash

Programmable(a) == a \in Cells /\ ers = {} /\ flash[a] = Erased

WriteDone(a, v) == Programmable(a) /\ flash' = [flash EXCEPT ![a] = v]

\* MCR[PEG] is low after the programming.
WriteFailed(a) ==
  /\ "program" \in Faults
  /\ Programmable(a)
  /\ flash' = [flash EXCEPT ![a] = Damaged]

(***************************************************************************)
(* FLASH_DRV_Program may return STATUS_BUSY, because MCR[ERS] is set, or   *)
(* STATUS_FLASH_ERROR_ENABLE, because the controller did not take          *)
(* MCR[PGM], and has started nothing then.  flash_write overwrites that    *)
(* status with the one of FLASH_DRV_CheckProgramStatus, which sees no      *)
(* programming to wait for and returns STATUS_SUCCESS.  A write to what is *)
(* no flash, and read all ones, may seem to succeed as well.               *)
(***************************************************************************)
WriteLost(a) ==
  /\ Erased \in Read(flash, a)
  /\ a \notin Cells \/ ers # {} \/ "program" \in Faults
  /\ UNCHANGED flash

flash_write_succeeds(a, v) == WriteDone(a, v) \/ WriteLost(a)
flash_write_fails(a)       == WriteRefused(a) \/ WriteFailed(a)

-----------------------------------------------------------------------------
(* flash_erase: FLASH_DRV_Erase starts it, FLASH_DRV_CheckEraseStatus sees *)
(* its end                                                                 *)

EraseBegins(sel) == sel # {} /\ ers' = sel /\ UNCHANGED flash

\* No block selected: FLASH_DRV_Erase clears MCR[ERS] again and succeeds.
EraseOfNothing(sel) == sel = {} /\ UNCHANGED <<flash, ers>>

\* STATUS_FLASH_ERROR_ENABLE
EraseNotEnabled(sel) == sel # {} /\ "erase" \in Faults /\ UNCHANGED <<flash, ers>>

EraseDone ==
  /\ flash' = [a \in Cells |-> IF a \in UnderErase THEN Erased ELSE flash[a]]
  /\ ers' = {}

(***************************************************************************)
(* An erase that does not end well, or is cut off by a reset, leaves each  *)
(* unit of the selected blocks as it was, blank, or damaged.               *)
(***************************************************************************)
CutErase ==
  /\ \E cut \in [UnderErase -> {"kept", "wiped", "half"}] :
       flash' = [a \in Cells |->
                   IF a \notin UnderErase \/ cut[a] = "kept" THEN flash[a]
                   ELSE IF cut[a] = "wiped" THEN Erased ELSE Damaged]
  /\ ers' = {}

EraseFailed == "erase" \in Faults /\ CutErase

=============================================================================
