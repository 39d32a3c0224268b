------------------------------ MODULE FlashMap ------------------------------
(***************************************************************************)
(* The flash map of the bootloader: which address ranges a client may      *)
(* erase or download (boot_app.c, check_flash_address_valid), and which    *)
(* erase blocks a range selects (flash_drv.c, flash_get_block_select).     *)
(*                                                                         *)
(* Addresses are uint32_t in the code: every sum is taken modulo AddrMod.  *)
(* The tables are constants, so that the same operators serve the device's *)
(* own table (module DeviceMap) and the small maps of the model-checked    *)
(* instances.                                                              *)
(***************************************************************************)
EXTENDS Naturals

CONSTANTS
  AddrMod,   \* the address space is 0 .. AddrMod - 1 (2^32 on the device)
  Segments,  \* seg_base / seg_size: the ranges a client may program
  Blocks     \* flash_sel_table: the erase blocks, by first and last address

Addr == 0 .. AddrMod - 1

ASSUME FlashMapAssumption ==
  /\ AddrMod \in Nat \ {0}
  /\ Segments \subseteq [base : Addr, size : Addr]
  /\ Blocks \subseteq [start : Addr, end : Addr]

Plus(a, n) == (a + n) % AddrMod

\* Mutant: where the range begins is not checked.
OnlyEndChecked(addr, size) ==
  \E g \in Segments :
    /\ Plus(addr, size) <= Plus(g.base, g.size)
    /\ size # 0
    /\ size <= g.size

(***************************************************************************)
(* Nonzero in the code exactly when this holds.  addr + size is computed   *)
(* in 32 bits before it is compared with the end of the segment.           *)
(***************************************************************************)
check_flash_address_valid(addr, size) ==
  \E g \in Segments :
    /\ addr >= g.base
    /\ Plus(addr, size) <= Plus(g.base, g.size)
    /\ size # 0
    /\ size <= g.size

\* start_address + size - 1, in 32 bits.
LastAddr(addr, size) == Plus(addr, size + AddrMod - 1)

\* Mutant: only the blocks of the two ends.
SelectEnds(addr, size) ==
  LET last == LastAddr(addr, size) IN
  {b \in Blocks : \/ b.start <= addr /\ addr <= b.end
                  \/ b.start <= last /\ last <= b.end}

(***************************************************************************)
(* The blocks the loop over flash_sel_table ORs into the selection: those  *)
(* that hold the first address, those that hold the last one, and those    *)
(* that lie between the two.                                               *)
(***************************************************************************)
flash_get_block_select(addr, size) ==
  LET last == LastAddr(addr, size) IN
  {b \in Blocks : \/ b.start <= addr /\ addr <= b.end
                  \/ b.start <= last /\ last <= b.end
                  \/ addr <= b.start /\ b.end <= last}

-----------------------------------------------------------------------------
\* The addresses of a block, and all addresses that are flash.
Span(b) == b.start .. b.end
Cells   == UNION {Span(b) : b \in Blocks}

\* The addresses that erasing a range wipes.
Touched(addr, size) == UNION {Span(b) : b \in flash_get_block_select(addr, size)}

(***************************************************************************)
(* No accepted range reaches these addresses, neither by erasing the       *)
(* blocks it selects nor by programming what it spans.                     *)
(***************************************************************************)
OutOfReach(cells) ==
  \A a, n \in Addr :
    check_flash_address_valid(a, n) =>
      /\ Touched(a, n) \cap cells = {}
      /\ \A k \in 0 .. n - 1 : Plus(a, k) \notin cells

\* The range does not run past the top of the address space.
NoWrap(addr, size) == addr + size < AddrMod

\* What the table means: the range lies inside one programmable segment.
Inside(addr, size) ==
  /\ size # 0
  /\ \E g \in Segments : addr >= g.base /\ addr + size <= g.base + g.size
=============================================================================
