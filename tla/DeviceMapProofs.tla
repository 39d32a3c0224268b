--------------------------- MODULE DeviceMapProofs --------------------------
(***************************************************************************)
(* What MCDeviceMap checks at page granularity holds for every address and *)
(* every size, in pages and in bytes.                                      *)
(***************************************************************************)
EXTENDS DeviceMap, TLAPS

LEMMA TimesMonotonic ==
  ASSUME NEW m \in Nat, NEW p \in Nat, NEW q \in Nat, p <= q
  PROVE  p * m <= q * m /\ p * m \in Nat /\ q * m \in Nat
BY SMT

LEMMA ManyPages == PageCount \in Nat /\ PageCount >= 9216
<1>1. \A p \in Nat : p >= 9 => 1024 * p \in Nat /\ 1024 * p >= 9216
  BY SMT
<1> QED BY <1>1 DEF PageCount

\* All the proofs need of the address space: it is larger than both tables.
LEMMA AddressSpace ==
  /\ Grain \in Nat \ {0}
  /\ DeviceAddrMod \in Nat \ {0}
  /\ DeviceAddrMod > 8192 * Grain
<1>1. Grain \in Nat \ {0}
  BY GrainAssumption
<1>2. 9216 * Grain <= PageCount * Grain /\ PageCount * Grain \in Nat
  BY <1>1, ManyPages, TimesMonotonic
<1> QED BY <1>1, <1>2 DEF DeviceAddrMod

\* Where a range the check accepts begins and where its last address is: both
\* below the bootloader, or above it, or the last one around the address space.
LEMMA AcceptedEnds ==
  ASSUME NEW a \in Addr, NEW n \in Addr, check_flash_address_valid(a, n)
  PROVE  /\ LastAddr(a, n) \in Addr
         /\ \/ a < 4064 * Grain /\ LastAddr(a, n) < 4064 * Grain
            \/ a >= 4096 * Grain /\ LastAddr(a, n) < 4064 * Grain
            \/ a >= 4096 * Grain /\ LastAddr(a, n) >= 4096 * Grain
         /\ \A k \in 0 .. n - 1 : Plus(a, k) \notin DeviceBootCells
<1> DEFINE M == DeviceAddrMod
<1> HIDE DEF M
<1>1. PICK g \in DeviceSegments : /\ a >= g.base
                                  /\ Plus(a, n) <= Plus(g.base, g.size)
                                  /\ n # 0 /\ n <= g.size
  BY DEF check_flash_address_valid
<1>2. \/ g.base = 3980 * Grain /\ g.size = 84 * Grain
      \/ g.base = 4097 * Grain /\ g.size = 1407 * Grain
  BY <1>1 DEF DeviceSegments
<1>3. /\ M \in Nat \ {0} /\ Grain \in Nat \ {0} /\ M > 8192 * Grain
      /\ a \in 0 .. M - 1 /\ n \in 0 .. M - 1
  BY AddressSpace DEF Addr, M
<1>4. \A k \in 0 .. M - 1 :
        Plus(a, k) = IF a + k < M THEN a + k ELSE a + k - M
  <2> TAKE k \in 0 .. M - 1
  <2>1. a + k \in 0 .. (2 * M - 1)
    BY <1>3
  <2>2. (a + k) % M = IF a + k < M THEN a + k ELSE a + k - M
    BY <2>1, <1>3, SMT
  <2> QED BY <2>2 DEF Plus, M
<1>5. LastAddr(a, n) = IF a + n - 1 < M THEN a + n - 1 ELSE a + n - 1 - M
  <2>1. n >= 1
    BY <1>1, <1>3
  <2>2. a + (n + M - 1) \in M .. (3 * M - 1)
    BY <1>3, <2>1
  <2>3. (a + (n + M - 1)) % M = IF a + (n + M - 1) < 2 * M
                                THEN a + (n + M - 1) - M ELSE a + (n + M - 1) - 2 * M
    BY <2>2, <1>3, SMT
  <2> QED BY <2>3, <1>3 DEF LastAddr, Plus, M
<1>6. Plus(g.base, g.size) = g.base + g.size
  <2>1. g.base + g.size \in 0 .. (2 * M - 1) /\ g.base + g.size < M
    BY <1>2, <1>3
  <2>2. (g.base + g.size) % M = IF g.base + g.size < M THEN g.base + g.size
                                ELSE g.base + g.size - M
    BY <2>1, <1>3, SMT
  <2> QED BY <2>1, <2>2 DEF Plus, M
<1>7. Plus(a, n) = IF a + n < M THEN a + n ELSE a + n - M
  BY <1>3, <1>4
<1> HIDE DEF M
<1>8. LastAddr(a, n) \in 0 .. M - 1
  BY <1>1, <1>3, <1>5
<1>9. \/ a < 4064 * Grain /\ LastAddr(a, n) < 4064 * Grain
      \/ a >= 4096 * Grain /\ LastAddr(a, n) < 4064 * Grain
      \/ a >= 4096 * Grain /\ LastAddr(a, n) >= 4096 * Grain
  BY <1>1, <1>2, <1>3, <1>5, <1>6, <1>7
<1>10. \A k \in 0 .. n - 1 : Plus(a, k) \notin DeviceBootCells
  BY <1>1, <1>2, <1>3, <1>4, <1>6, <1>7 DEF DeviceBootCells
<1> QED BY <1>8, <1>9, <1>10 DEF Addr, M

\* A block lies below the bootloader, or above it, or is one of its own.
LEMMA BlockPlaces ==
  ASSUME NEW b \in DeviceBlocks
  PROVE  /\ b.start \in Nat /\ b.end \in Nat /\ b.start <= b.end
         /\ \/ b.end < 4064 * Grain
            \/ b.start >= 4096 * Grain
            \/ /\ b \in BootBlocks
               /\ 4064 * Grain <= b.start /\ b.end < 4096 * Grain
<1>1. PICK p, w \in Nat :
        /\ b = Pages(p, w) /\ p < w + 1
        /\ w + 1 <= 4064 \/ p >= 4096 \/ (p = 4064 /\ w = 4079) \/ (p = 4080 /\ w = 4095)
  <2>1. CASE b \in Blocks16K
    <3>1. PICK p \in {1024, 1028} \cup {3968 + 4 * i : i \in (0 .. 11) \ {2}} : b = Pages(p, p + 3)
      BY <2>1 DEF Blocks16K
    <3>2. p \in Nat /\ p + 4 <= 4064
      BY <3>1
    <3> QED BY <3>1, <3>2
  <2>2. CASE b \in Blocks32K
    <3>1. PICK p \in {4016 + 8 * i : i \in 0 .. 5} : b = Pages(p, p + 7)
      BY <2>2 DEF Blocks32K
    <3>2. p \in Nat /\ p + 8 <= 4064
      BY <3>1
    <3> QED BY <3>1, <3>2
  <2>3. CASE b \in Blocks64K
    <3>1. PICK p \in {1552, 1568, 4064, 4080} : b = Pages(p, p + 15)
      BY <2>3 DEF Blocks64K
    <3> QED BY <3>1
  <2>4. CASE b \in Blocks256K
    <3>1. PICK p \in {4096 + 64 * i : i \in 0 .. 21} : b = Pages(p, p + 63)
      BY <2>4 DEF Blocks256K
    <3>2. p \in Nat /\ p >= 4096
      BY <3>1
    <3> QED BY <3>1, <3>2
  <2> QED BY <2>1, <2>2, <2>3, <2>4 DEF DeviceBlocks
<1>2. b.start = p * Grain /\ b.end = (w + 1) * Grain - 1
  BY <1>1 DEF Pages
<1>3. Grain \in Nat \ {0}
  BY AddressSpace
<1>4. (p + 1) * Grain <= (w + 1) * Grain /\ p * Grain \in Nat /\ (w + 1) * Grain \in Nat
      /\ (p + 1) * Grain = p * Grain + Grain
  BY <1>1, <1>3, TimesMonotonic, SMT
<1>5. CASE w + 1 <= 4064
  <2>1. (w + 1) * Grain <= 4064 * Grain
    BY <1>3, <1>5, TimesMonotonic
  <2> QED BY <1>2, <1>3, <1>4, <2>1
<1>6. CASE p >= 4096
  <2>1. 4096 * Grain <= p * Grain
    BY <1>3, <1>6, TimesMonotonic
  <2> QED BY <1>2, <1>3, <1>4, <2>1
<1>7. CASE (p = 4064 /\ w = 4079) \/ (p = 4080 /\ w = 4095)
  <2>1. b \in BootBlocks
    BY <1>1, <1>7 DEF BootBlocks
  <2> QED BY <1>2, <1>3, <1>4, <1>7, <2>1
<1> QED BY <1>1, <1>5, <1>6, <1>7

-----------------------------------------------------------------------------
(***************************************************************************)
(* Whatever range check_flash_address_valid accepts, in pages or in bytes, *)
(* flash_get_block_select picks none of the bootloader's blocks: an erase  *)
(* request cannot make the device unrecoverable.                           *)
(***************************************************************************)
THEOREM NoBootBlockSelected ==
  ASSUME NEW a \in Addr, NEW n \in Addr, check_flash_address_valid(a, n),
         NEW b \in flash_get_block_select(a, n)
  PROVE  /\ b \in DeviceBlocks
         /\ b.end < 4064 * Grain \/ b.start >= 4096 * Grain
<1>1. /\ b \in DeviceBlocks
      /\ \/ b.start <= a /\ a <= b.end
         \/ b.start <= LastAddr(a, n) /\ LastAddr(a, n) <= b.end
         \/ a <= b.start /\ b.end <= LastAddr(a, n)
  BY DEF flash_get_block_select
<1>2. a \in Nat /\ LastAddr(a, n) \in Nat /\ Grain \in Nat \ {0}
  BY AcceptedEnds, AddressSpace DEF Addr
<1>3. /\ b.start \in Nat /\ b.end \in Nat /\ b.start <= b.end
      /\ \/ b.end < 4064 * Grain
         \/ b.start >= 4096 * Grain
         \/ 4064 * Grain <= b.start /\ b.end < 4096 * Grain
  BY <1>1, BlockPlaces
<1>4. \/ a < 4064 * Grain /\ LastAddr(a, n) < 4064 * Grain
      \/ a >= 4096 * Grain /\ LastAddr(a, n) < 4064 * Grain
      \/ a >= 4096 * Grain /\ LastAddr(a, n) >= 4096 * Grain
  BY AcceptedEnds
<1> QED BY <1>1, <1>2, <1>3, <1>4

(***************************************************************************)
(* The device's own table is one for which the assumption of the theorem   *)
(* on BootServer holds: the bootloader's addresses are out of reach of     *)
(* every accepted range, for the units it programs as for the blocks that  *)
(* it erases.                                                              *)
(***************************************************************************)
THEOREM DeviceOutOfReach == OutOfReach(DeviceBootCells)
<1> SUFFICES ASSUME NEW a \in Addr, NEW n \in Addr, check_flash_address_valid(a, n)
             PROVE  /\ Touched(a, n) \cap DeviceBootCells = {}
                    /\ \A k \in 0 .. n - 1 : Plus(a, k) \notin DeviceBootCells
  BY DEF OutOfReach
<1>1. ASSUME NEW b \in flash_get_block_select(a, n)
      PROVE  Span(b) \cap DeviceBootCells = {}
  <2>1. b \in DeviceBlocks /\ (b.end < 4064 * Grain \/ b.start >= 4096 * Grain)
    BY NoBootBlockSelected
  <2>2. b.start \in Nat /\ b.end \in Nat
    BY <2>1, BlockPlaces
  <2> QED BY <2>1, <2>2, AddressSpace DEF Span, DeviceBootCells
<1>2. Touched(a, n) \cap DeviceBootCells = {}
  BY <1>1 DEF Touched
<1> QED BY <1>2, AcceptedEnds

LEMMA TypeCorrect == Spec => []TypeOK
<1>1. ProbeAddrs \subseteq Addr
  <2> SUFFICES ASSUME NEW p \in Probes PROVE p * Grain \in Addr
    BY DEF ProbeAddrs
  <2>1. PageCount \in Nat /\ p \in Nat /\ p + 1 <= PageCount
    BY ManyPages, ProbesAssumption
  <2>2. (p + 1) * Grain <= PageCount * Grain /\ (p + 1) * Grain \in Nat /\ PageCount * Grain \in Nat
    BY <2>1, AddressSpace, TimesMonotonic
  <2>3. (p + 1) * Grain = p * Grain + Grain /\ p * Grain \in Nat
    BY <2>1, AddressSpace, SMT
  <2> QED BY <2>2, <2>3, AddressSpace DEF Addr, DeviceAddrMod
<1>2. Init => TypeOK
  BY <1>1, AddressSpace DEF Init, TypeOK, Addr
<1>3. TypeOK /\ [Next]_vars => TypeOK'
  BY <1>1 DEF TypeOK, Next, OtherAddress, OtherSize, vars
<1> QED BY <1>2, <1>3, PTL DEF Spec

(***************************************************************************)
(* The invariant that MCDeviceMap checks, for every set of probes in the   *)
(* address space and at both granularities.                                *)
(***************************************************************************)
THEOREM BootBlocksAreSafe == Spec => []BootBlocksSafe
<1>1. TypeOK => BootBlocksSafe
  <2> SUFFICES ASSUME addr \in Addr, size \in Addr, check_flash_address_valid(addr, size),
                      NEW b \in flash_get_block_select(addr, size), b \in BootBlocks
               PROVE  FALSE
    BY DEF BootBlocksSafe, TypeOK
  <2>1. b.end < 4064 * Grain \/ b.start >= 4096 * Grain
    BY NoBootBlockSelected
  <2>2. \/ b.start = 4064 * Grain /\ b.end = (4079 + 1) * Grain - 1
        \/ b.start = 4080 * Grain /\ b.end = (4095 + 1) * Grain - 1
    BY DEF BootBlocks, Pages
  <2> QED BY <2>1, <2>2, AddressSpace
<1> QED BY <1>1, TypeCorrect, PTL

LEMMA NoWrapSums ==
  ASSUME NEW a \in Addr, NEW n \in Addr, NoWrap(a, n)
  PROVE  /\ a \in Nat /\ n \in Nat
         /\ Plus(a, n) = a + n
         /\ n # 0 => LastAddr(a, n) = a + n - 1
<1> DEFINE M == DeviceAddrMod
<1>1. M \in Nat \ {0} /\ a \in 0 .. M - 1 /\ n \in 0 .. M - 1 /\ a + n < M
  BY AddressSpace DEF Addr, NoWrap
<1> HIDE DEF M
<1>2. (a + n) % M = a + n
  BY <1>1, SMT
<1>3. ASSUME n # 0 PROVE (a + (n + M - 1)) % M = a + n - 1
  BY <1>1, <1>3, SMT
<1> QED BY <1>1, <1>2, <1>3 DEF Plus, LastAddr, M

(***************************************************************************)
(* For ranges that do not wrap around the check is exact to the byte, not  *)
(* only to the page.                                                       *)
(***************************************************************************)
THEOREM CheckIsExact == Spec => []CheckExact
<1>1. TypeOK => CheckExact
  <2> SUFFICES ASSUME addr \in Addr, size \in Addr, NoWrap(addr, size)
               PROVE  check_flash_address_valid(addr, size) <=> Inside(addr, size)
    BY DEF CheckExact, TypeOK
  <2>1. Plus(addr, size) = addr + size /\ addr \in Nat /\ size \in Nat
    BY NoWrapSums
  <2>2. ASSUME NEW g \in DeviceSegments
        PROVE  /\ g.base \in Nat /\ g.size \in Nat
               /\ Plus(g.base, g.size) = g.base + g.size
    <3>1. /\ g.base \in Nat /\ g.size \in Nat /\ g.base + g.size < 8192 * Grain
      BY AddressSpace DEF DeviceSegments
    <3>2. g.base \in Addr /\ g.size \in Addr /\ NoWrap(g.base, g.size)
      BY <3>1, AddressSpace DEF Addr, NoWrap
    <3> QED BY <3>1, <3>2, NoWrapSums
  <2> QED BY <2>1, <2>2 DEF check_flash_address_valid, Inside
<1> QED BY <1>1, TypeCorrect, PTL

(***************************************************************************)
(* For the same ranges the blocks that flash_get_block_select picks are    *)
(* exactly those that the range overlaps, to the byte.                     *)
(***************************************************************************)
THEOREM SelectionIsExact == Spec => []SelectExact
<1>1. TypeOK => SelectExact
  <2> SUFFICES ASSUME addr \in Addr, size \in Addr, NoWrap(addr, size), size # 0,
                      NEW b \in DeviceBlocks
               PROVE  b \in flash_get_block_select(addr, size)
                        <=> b.start < addr + size /\ addr <= b.end
    BY DEF SelectExact, TypeOK, flash_get_block_select
  <2>1. /\ LastAddr(addr, size) = addr + size - 1
        /\ addr \in Nat /\ size \in Nat
    BY NoWrapSums
  <2>2. b.start \in Nat /\ b.end \in Nat /\ b.start <= b.end
    BY BlockPlaces
  <2> QED BY <2>1, <2>2 DEF flash_get_block_select
<1> QED BY <1>1, TypeCorrect, PTL
=============================================================================
