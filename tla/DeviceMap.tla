----------------------------- MODULE DeviceMap ------------------------------
(***************************************************************************)
(* The flash map of the MPC5748G as the bootloader's tables state it.      *)
(* Every entry is a multiple of 4 KiB; the tables are given in pages and   *)
(* scaled by Grain, the number of addresses per page: 4096 on the device,  *)
(* 1 when TLC, whose integers have 32 bits, enumerates ranges of pages.    *)
(*                                                                         *)
(* The module is a state machine that only chooses ranges: its state is    *)
(* the pair of arguments the handlers pass to check_flash_address_valid    *)
(* and flash_erase, so that a property is an invariant over all of them.   *)
(***************************************************************************)
EXTENDS Naturals

CONSTANTS
  Grain,     \* addresses per 4 KiB page
  Probes     \* the range starts and lengths to try, as numbers of pages

ASSUME GrainAssumption == Grain \in {1, 4096}

PageCount == 1024 * 1024

ASSUME ProbesAssumption == Probes \subseteq 0 .. PageCount - 1

DeviceAddrMod == PageCount * Grain

Pages(first, last) == [start |-> first * Grain, end |-> (last + 1) * Grain - 1]

\* seg_base / seg_size of check_flash_address_valid.
DeviceSegments ==
  { [base |->  3980 * Grain, size |->   84 * Grain],   \* 0x00F8C000, 0x54000
    [base |->  4097 * Grain, size |-> 1407 * Grain] }  \* 0x01001000, 0x57F000

\* The rows of flash_sel_table, by size of the erase block.
Blocks16K  == {Pages(p, p + 3)  : p \in {1024, 1028} \cup {3968 + 4 * i : i \in (0 .. 11) \ {2}}}
Blocks32K  == {Pages(p, p + 7)  : p \in {4016 + 8 * i : i \in 0 .. 5}}
Blocks64K  == {Pages(p, p + 15) : p \in {1552, 1568, 4064, 4080}}
Blocks256K == {Pages(p, p + 63) : p \in {4096 + 64 * i : i \in 0 .. 21}}
DeviceBlocks == Blocks16K \cup Blocks32K \cup Blocks64K \cup Blocks256K

\* The two blocks that hold the bootloader (boot_flash.ld: 0x00FE0000, 128 KiB).
BootBlocks == {Pages(4064, 4079), Pages(4080, 4095)}
DeviceBootCells == 4064 * Grain .. 4096 * Grain - 1

VARIABLES addr, size
vars == <<addr, size>>

INSTANCE FlashMap WITH AddrMod <- DeviceAddrMod, Segments <- DeviceSegments,
                       Blocks  <- DeviceBlocks

ProbeAddrs == {p * Grain : p \in Probes}

Init == addr \in ProbeAddrs /\ size = 0

\* The next request names another start or another length.
OtherAddress == addr' \in ProbeAddrs /\ UNCHANGED size
OtherSize    == size' \in ProbeAddrs /\ UNCHANGED addr
Next == OtherAddress \/ OtherSize
Spec == Init /\ [][Next]_vars

-----------------------------------------------------------------------------
TypeOK == addr \in Addr /\ size \in Addr

(***************************************************************************)
(* No range that check_flash_address_valid lets through, wrapped ranges    *)
(* included, makes flash_get_block_select pick a block the bootloader      *)
(* itself lives in: no erase request can make the device unrecoverable.    *)
(***************************************************************************)
BootBlocksSafe ==
  check_flash_address_valid(addr, size) =>
    flash_get_block_select(addr, size) \cap BootBlocks = {}

(***************************************************************************)
(* For a range that does not wrap, the check accepts exactly the ranges    *)
(* inside a programmable segment, and the selection is exactly the blocks  *)
(* the range overlaps.                                                     *)
(***************************************************************************)
CheckExact ==
  NoWrap(addr, size) => (check_flash_address_valid(addr, size) <=> Inside(addr, size))

SelectExact ==
  size # 0 /\ NoWrap(addr, size) =>
    flash_get_block_select(addr, size)
      = {b \in DeviceBlocks : b.start < addr + size /\ addr <= b.end}

(***************************************************************************)
(* The comment beside "ret" in check_flash_address_valid: 0 means invalid  *)
(* address, so a nonzero result means that the range is flash a client may *)
(* program.                                                                *)
(***************************************************************************)
AcceptedIsInside == check_flash_address_valid(addr, size) => Inside(addr, size)
=============================================================================
