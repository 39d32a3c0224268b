--------------------------- MODULE BootSystemProofs ---------------------------
(***************************************************************************)
(* Theorems about BootSystem for every file, every flash map and every     *)
(* interleaving of the tool, the network and the two tasks of the device,  *)
(* while the network copies no datagram.                                   *)
(***************************************************************************)
EXTENDS BootSystem, SequenceTheorems, WellFoundedInduction, TLAPS

-----------------------------------------------------------------------------
(* Induction over the numbers, put as one over the set of the numbers that *)
(* a statement holds for.                                                  *)

Below == {p \in Nat \X Nat : p[1] < p[2]}

LEMMA BelowWF == IsWellFoundedOn(Below, Nat)
<1>1. OpToRel(<, Nat) = Below
  BY DEF OpToRel, Below
<1>2. QED
  BY <1>1, NatLessThanWellFounded

LEMMA Induct ==
  ASSUME NEW S, 0 \in S, \A n \in Nat : n \in S => n + 1 \in S
  PROVE  Nat \subseteq S
<1> SUFFICES ASSUME Nat \ S # {} PROVE FALSE
  OBVIOUS
<1>1. PICK x \in Nat \ S : \A y \in Nat \ S : ~(<<y, x>> \in Below)
  BY BelowWF, WFMin
<1>2. x # 0 /\ x - 1 \in Nat /\ x - 1 < x
  BY <1>1
<1>3. x - 1 \in S
  BY <1>1, <1>2 DEF Below
<1>4. QED
  BY <1>1, <1>2, <1>3

-----------------------------------------------------------------------------
(* The units of the file in the order the tool sends them.                 *)

Parts == [i \in DOMAIN File |-> File[i].data]

\* Flat[i] is the data of the first i segments; FileSum is Flat[Len(File)].
IsFlat(f) == f = [i \in 1 .. Len(Parts) |-> IF i = 1 THEN Parts[i] ELSE f[i-1] \o Parts[i]]
Flat == CHOOSE f : IsFlat(f)

\* The units before segment i, and the place of the k-th unit of segment i.
Start(i)       == IF i = 1 THEN 0 ELSE Len(Flat[i - 1])
At(i, k)       == Start(i) + k
UnitAddr(i, k) == File[i].addr + k - 1

Cat(s, t) == s \o t

LEMMA Joined ==
  ASSUME NEW s \in Seq(Data), NEW t \in Seq(Data)
  PROVE  /\ Cat(s, t) \in Seq(Data) /\ Len(Cat(s, t)) = Len(s) + Len(t)
         /\ \A i \in 1 .. Len(s) : Cat(s, t)[i] = s[i]
         /\ \A i \in 1 .. Len(t) : Cat(s, t)[Len(s) + i] = t[i]
BY DEF Cat

LEMMA FileIs ==
  /\ Len(File) \in Nat \ {0} /\ DOMAIN File = 1 .. Len(File)
  /\ \A i \in 1 .. Len(File) :
       /\ File[i].addr \in Nat /\ File[i].data \in Seq(Data)
       /\ Len(File[i].data) \in Nat \ {0}
       /\ DOMAIN File[i].data = 1 .. Len(File[i].data)
<1>1. File # <<>> /\ File \in Seq([addr : Addr, data : Seq(Data) \ {<<>>}])
  BY FileAssumption
<1>2. Len(File) \in Nat \ {0} /\ DOMAIN File = 1 .. Len(File)
  BY <1>1
<1>3. ASSUME NEW i \in 1 .. Len(File)
      PROVE  File[i] \in [addr : Addr, data : Seq(Data) \ {<<>>}]
  <2> DEFINE R == [addr : Addr, data : Seq(Data) \ {<<>>}]
  <2> HIDE DEF R
  <2>1. File \in Seq(R)
    BY <1>1 DEF R
  <2>2. File[i] \in R
    BY <1>2, <2>1
  <2>3. QED
    BY <2>2 DEF R
<1>4. ASSUME NEW s \in Seq(Data) \ {<<>>}
      PROVE  Len(s) \in Nat \ {0} /\ DOMAIN s = 1 .. Len(s)
  OBVIOUS
<1>5. \A a \in Addr : a \in Nat
  BY FlashMapAssumption DEF Addr
<1>6. QED
  BY <1>2, <1>3, <1>4, <1>5

LEMMA SomeFlat ==
  ASSUME NEW s, NEW n \in Nat
  PROVE  \E f : f = [i \in 1 .. n |-> IF i = 1 THEN s[i] ELSE Cat(f[i - 1], s[i])]
<1> DEFINE P(f, m) == f = [i \in 1 .. m |-> IF i = 1 THEN s[i] ELSE Cat(f[i - 1], s[i])]
           S == {m \in Nat : \E f : P(f, m)}
<1>1. 0 \in S
  <2>1. P([i \in 1 .. 0 |-> 0], 0)
    OBVIOUS
  <2>2. QED
    BY <2>1
<1>2. ASSUME NEW m \in Nat, m \in S PROVE m + 1 \in S
  <2>1. PICK f : P(f, m)
    BY <1>2
  <2> DEFINE v == IF m = 0 THEN s[1] ELSE Cat(f[m], s[m + 1])
             g == [i \in 1 .. m + 1 |-> IF i = m + 1 THEN v ELSE f[i]]
  <2>2. ASSUME NEW i \in 1 .. m + 1
        PROVE  g[i] = IF i = 1 THEN s[i] ELSE Cat(g[i - 1], s[i])
    <3>1. CASE i = m + 1
      <4>1. g[i] = v /\ (i # 1 => i - 1 \in 1 .. m + 1 /\ g[i - 1] = f[m])
        BY <3>1
      <4>2. QED
        BY <3>1, <4>1
    <3>2. CASE i \in 1 .. m
      <4>1. g[i] = f[i] /\ (i # 1 => g[i - 1] = f[i - 1])
        BY <3>2
      <4>2. f[i] = IF i = 1 THEN s[i] ELSE Cat(f[i - 1], s[i])
        BY <2>1, <3>2
      <4>3. QED
        BY <4>1, <4>2
    <3>3. QED
      BY <3>1, <3>2
  <2>3. g = [i \in 1 .. m + 1 |-> g[i]]
    OBVIOUS
  <2> HIDE DEF g
  <2>4. [i \in 1 .. m + 1 |-> g[i]]
        = [i \in 1 .. m + 1 |-> IF i = 1 THEN s[i] ELSE Cat(g[i - 1], s[i])]
    BY <2>2
  <2>5. P(g, m + 1)
    BY <2>3, <2>4
  <2> HIDE DEF P
  <2>6. QED
    BY <2>5
<1> HIDE DEF S
<1>3. n \in S
  BY <1>1, <1>2, Induct
<1>4. QED
  BY <1>3 DEF S

LEMMA FlatIs ==
  /\ FileSum = Flat[Len(File)]
  /\ \A i \in 1 .. Len(File) :
       Flat[i] = IF i = 1 THEN File[i].data ELSE Cat(Flat[i - 1], File[i].data)
<1>1. Len(Parts) = Len(File) /\ \A i \in 1 .. Len(File) : Parts[i] = File[i].data
  BY FileIs DEF Parts
<1>2. Len(File) \in Nat \ {0}
  BY FileIs
<1>3. \E f : IsFlat(f)
  <2>1. Len(Parts) \in Nat
    BY <1>1, <1>2
  <2>2. PICK f : f = [i \in 1 .. Len(Parts) |->
                        IF i = 1 THEN Parts[i] ELSE Cat(f[i - 1], Parts[i])]
    BY <2>1, SomeFlat, Zenon
  <2>3. IsFlat(f)
    BY <2>2, Zenon DEF IsFlat, Cat
  <2>4. QED
    BY <2>3
<1>4. IsFlat(Flat)
  BY <1>3 DEF Flat
<1>5. FileSum = Flat[Len(File)]
  <2>1. FileSum = Seqs!FlattenSeq(Parts)
    BY DEF FileSum, Parts
  <2>2. Len(Parts) # 0
    BY <1>1, <1>2
  <2>3. Seqs!FlattenSeq(Parts) = Flat[Len(Parts)]
    BY <2>2 DEF Seqs!FlattenSeq, Flat, IsFlat
  <2>4. QED
    BY <1>1, <2>1, <2>3
<1>6. \A i \in 1 .. Len(File) :
        Flat[i] = IF i = 1 THEN Parts[i] ELSE Cat(Flat[i - 1], Parts[i])
  BY <1>1, <1>4 DEF IsFlat, Cat
<1>7. QED
  BY <1>1, <1>5, <1>6

LEMMA FlatSeq ==
  \A i \in 1 .. Len(File) :
    /\ Start(i) \in Nat
    /\ Flat[i] \in Seq(Data) /\ Len(Flat[i]) = Start(i) + Len(File[i].data)
    /\ \A k \in 1 .. Len(File[i].data) : Flat[i][At(i, k)] = File[i].data[k]
    /\ i > 1 => \A k \in 1 .. Start(i) : Flat[i][k] = Flat[i - 1][k]
<1> DEFINE S == {n \in Nat : n + 1 <= Len(File) => Flat[n + 1] \in Seq(Data)}
<1>1. Len(File) \in Nat \ {0} /\ \A i \in 1 .. Len(File) :
        File[i].data \in Seq(Data) /\ Len(File[i].data) \in Nat
  BY FileIs
<1>2. 0 \in S
  <2>1. 1 \in 1 .. Len(File) /\ 0 + 1 = 1
    BY <1>1
  <2>2. Flat[1] = File[1].data
    BY <2>1, FlatIs
  <2>3. QED
    BY <1>1, <2>1, <2>2
<1>3. ASSUME NEW n \in Nat, n \in S PROVE n + 1 \in S
  <2> SUFFICES ASSUME (n + 1) + 1 <= Len(File) PROVE Flat[(n + 1) + 1] \in Seq(Data)
    OBVIOUS
  <2>1. n + 1 <= Len(File) /\ (n + 1) + 1 \in 1 .. Len(File) /\ (n + 1) + 1 # 1
        /\ ((n + 1) + 1) - 1 = n + 1
    BY <1>1
  <2>2. Flat[(n + 1) + 1] = Cat(Flat[n + 1], File[(n + 1) + 1].data)
    BY <2>1, FlatIs
  <2>3. Flat[n + 1] \in Seq(Data)
    BY <1>3, <2>1
  <2>4. QED
    BY <1>1, <2>1, <2>2, <2>3, Joined
<1> HIDE DEF S
<1>4. Nat \subseteq S
  BY <1>2, <1>3, Induct
<1>5. ASSUME NEW i \in 1 .. Len(File) PROVE Flat[i] \in Seq(Data) /\ Len(Flat[i]) \in Nat
  <2>1. i - 1 \in Nat /\ (i - 1) + 1 = i /\ i <= Len(File) /\ i - 1 \in S
    BY <1>1, <1>4
  <2>2. Flat[i] \in Seq(Data)
    BY <2>1 DEF S
  <2>3. QED
    BY <2>2
<1>6. ASSUME NEW i \in 1 .. Len(File)
      PROVE  /\ Start(i) \in Nat /\ Len(Flat[i]) = Start(i) + Len(File[i].data)
             /\ \A k \in 1 .. Len(File[i].data) : Flat[i][At(i, k)] = File[i].data[k]
             /\ i > 1 => \A k \in 1 .. Start(i) : Flat[i][k] = Flat[i - 1][k]
  <2>1. CASE i = 1
    <3>1. Start(i) = 0 /\ Flat[i] = File[i].data
      BY <1>1, <2>1, FlatIs DEF Start
    <3>2. QED
      BY <1>1, <2>1, <3>1 DEF At
  <2>2. CASE i # 1
    <3>1. i - 1 \in 1 .. Len(File) /\ i \in Nat
      BY <1>1, <2>2
    <3>2. Start(i) = Len(Flat[i - 1]) /\ Flat[i] = Cat(Flat[i - 1], File[i].data)
      BY <2>2, FlatIs DEF Start
    <3>3. Flat[i - 1] \in Seq(Data) /\ Len(Flat[i - 1]) \in Nat /\ File[i].data \in Seq(Data)
      BY <1>1, <1>5, <3>1
    <3> DEFINE s == Flat[i - 1]
               t == File[i].data
    <3>4. /\ Cat(s, t) \in Seq(Data) /\ Len(Cat(s, t)) = Len(s) + Len(t)
          /\ \A k \in 1 .. Len(s) : Cat(s, t)[k] = s[k]
          /\ \A k \in 1 .. Len(t) : Cat(s, t)[Len(s) + k] = t[k]
      <4> HIDE DEF s, t
      <4>1. s \in Seq(Data) /\ t \in Seq(Data)
        BY <3>3 DEF s, t
      <4>2. QED
        BY <4>1, Joined, Zenon
    <3>5. QED
      BY <3>2, <3>3, <3>4, Zenon DEF At
  <2>3. QED
    BY <2>1, <2>2
<1>7. QED
  BY <1>5, <1>6

LEMMA StartStep ==
  /\ Start(1) = 0
  /\ \A i \in 1 .. Len(File) :
       Start(i) + Len(File[i].data) = IF i < Len(File) THEN Start(i + 1) ELSE Len(FileSum)
<1>1. Start(1) = 0
  BY DEF Start
<1>2. ASSUME NEW i \in 1 .. Len(File)
      PROVE  Start(i) + Len(File[i].data) = IF i < Len(File) THEN Start(i + 1) ELSE Len(FileSum)
  <2>1. Len(Flat[i]) = Start(i) + Len(File[i].data)
    BY FlatSeq
  <2>2. i \in Nat /\ i + 1 # 1 /\ (i + 1) - 1 = i /\ Len(File) \in Nat
    BY FileIs
  <2>3. Start(i + 1) = Len(Flat[i])
    BY <2>2 DEF Start
  <2>4. ~(i < Len(File)) => i = Len(File)
    BY <2>2
  <2>5. QED
    BY <2>1, <2>3, <2>4, FlatIs
<1>3. QED
  BY <1>1, <1>2

LEMMA Later ==
  \A i, j \in 1 .. Len(File) : i < j => Start(i) + Len(File[i].data) <= Start(j)
<1> SUFFICES ASSUME NEW i \in 1 .. Len(File)
             PROVE  \A j \in 1 .. Len(File) : i < j => Start(i) + Len(File[i].data) <= Start(j)
  OBVIOUS
<1> DEFINE E == Start(i) + Len(File[i].data)
           S == {n \in Nat : i + 1 + n <= Len(File) => E <= Start(i + 1 + n)}
<1>1. Len(File) \in Nat \ {0} /\ i \in Nat \ {0} /\ E \in Nat
      /\ \A j \in 1 .. Len(File) : Start(j) \in Nat /\ Len(File[j].data) \in Nat
  BY FileIs, FlatSeq
<1>2. 0 \in S
  <2>1. i + 1 + 0 = i + 1 /\ (i + 1 <= Len(File) => i < Len(File))
    BY <1>1
  <2>2. i < Len(File) => E = Start(i + 1)
    BY StartStep
  <2> HIDE DEF E
  <2>3. QED
    BY <1>1, <2>1, <2>2
<1>3. ASSUME NEW n \in Nat, n \in S PROVE n + 1 \in S
  <2> SUFFICES ASSUME i + 1 + (n + 1) <= Len(File) PROVE E <= Start(i + 1 + (n + 1))
    OBVIOUS
  <2> DEFINE j == i + 1 + n
  <2>1. j \in 1 .. Len(File) /\ j < Len(File) /\ i + 1 + (n + 1) = j + 1
        /\ j + 1 \in 1 .. Len(File)
    BY <1>1
  <2>2. E <= Start(j)
    BY <1>3, <2>1
  <2> HIDE DEF E, j
  <2>3. Start(j) + Len(File[j].data) = Start(j + 1)
    BY <2>1, StartStep
  <2>4. Start(j) \in Nat /\ Len(File[j].data) \in Nat /\ E \in Nat
    BY <1>1, <2>1
  <2>5. E <= Start(j + 1)
    BY <2>2, <2>3, <2>4
  <2>6. QED
    BY <2>1, <2>5
<1> HIDE DEF E, S
<1>4. Nat \subseteq S
  BY <1>2, <1>3, Induct
<1>5. ASSUME NEW j \in 1 .. Len(File), i < j PROVE E <= Start(j)
  <2>1. j - i - 1 \in Nat /\ i + 1 + (j - i - 1) = j /\ j <= Len(File) /\ j - i - 1 \in S
    BY <1>1, <1>4, <1>5
  <2>2. QED
    BY <2>1 DEF S
<1>6. QED
  BY <1>5 DEF E

\* Every unit has a place of its own in FileSum.
LEMMA Places ==
  ASSUME NEW i \in 1 .. Len(File), NEW k \in 1 .. Len(File[i].data)
  PROVE  /\ At(i, k) \in Nat \ {0} /\ At(i, k) <= Len(FileSum)
         /\ FileSum \in Seq(Data) /\ FileSum[At(i, k)] = File[i].data[k]
         /\ \A j \in 1 .. Len(File) : \A l \in 1 .. Len(File[j].data) :
              At(i, k) = At(j, l) => i = j /\ k = l
<1> DEFINE N == Len(File)
<1>1. /\ N \in Nat \ {0} /\ i \in Nat /\ k \in Nat \ {0} /\ N \in 1 .. N
      /\ \A j \in 1 .. N : /\ Start(j) \in Nat /\ Len(File[j].data) \in Nat
                           /\ Flat[j] \in Seq(Data)
                           /\ Len(Flat[j]) = Start(j) + Len(File[j].data)
  BY FileIs, FlatSeq
<1>2. FileSum = Flat[N] /\ Len(FileSum) = Start(N) + Len(File[N].data)
  BY <1>1, FlatIs
<1>3. At(i, k) \in Nat \ {0} /\ At(i, k) <= Start(i) + Len(File[i].data) /\ At(i, k) > Start(i)
  BY <1>1 DEF At
<1>4. Start(i) + Len(File[i].data) <= Len(FileSum)
  <2>1. CASE i = N
    BY <1>1, <1>2, <2>1
  <2>2. CASE i # N
    <3>1. i < N
      BY <1>1, <2>2
    <3>2. Start(i) + Len(File[i].data) <= Start(N)
      BY <1>1, <3>1, Later
    <3>3. /\ Start(N) \in Nat /\ Len(File[N].data) \in Nat
          /\ Start(i) \in Nat /\ Len(File[i].data) \in Nat
      BY <1>1
    <3>4. QED
      BY <1>2, <3>2, <3>3
  <2>3. QED
    BY <2>1, <2>2
<1>5. ASSUME NEW j \in 1 .. N, NEW l \in 1 .. Len(File[j].data), At(i, k) = At(j, l)
      PROVE  i = j /\ k = l
  <2>1. /\ j \in Nat /\ l \in Nat \ {0} /\ At(j, l) <= Start(j) + Len(File[j].data)
        /\ At(j, l) > Start(j) /\ Start(j) \in Nat
    BY <1>1 DEF At
  <2>2. ~(i < j)
    <3>1. i < j => Start(i) + Len(File[i].data) <= Start(j)
      BY Later
    <3>2. QED
      BY <1>1, <1>3, <1>5, <2>1, <3>1
  <2>5. ~(j < i)
    <3>1. j < i => Start(j) + Len(File[j].data) <= Start(i)
      BY Later
    <3>2. QED
      BY <1>1, <1>3, <1>5, <2>1, <3>1
  <2>3. i = j
    BY <1>1, <2>1, <2>2, <2>5
  <2>4. QED
    BY <1>1, <1>5, <2>1, <2>3 DEF At
<1> DEFINE S == {n \in Nat : i + n <= N => Flat[i + n][At(i, k)] = File[i].data[k]}
<1>6. 0 \in S
  BY <1>1, FlatSeq
<1>7. ASSUME NEW n \in Nat, n \in S PROVE n + 1 \in S
  <2> SUFFICES ASSUME i + (n + 1) <= N PROVE Flat[i + (n + 1)][At(i, k)] = File[i].data[k]
    OBVIOUS
  <2> DEFINE j == i + (n + 1)
  <2>1. j \in 1 .. N /\ j > 1 /\ j - 1 = i + n /\ i + n <= N /\ i < j
    BY <1>1
  <2>2. Flat[i + n][At(i, k)] = File[i].data[k]
    BY <1>7, <2>1
  <2> HIDE DEF j
  <2>3. Start(i) + Len(File[i].data) <= Start(j) /\ Start(j) \in Nat
    BY <1>1, <2>1, Later
  <2>4. At(i, k) \in 1 .. Start(j)
    BY <1>1, <1>3, <2>3
  <2>5. Flat[j][At(i, k)] = Flat[j - 1][At(i, k)]
    BY <2>1, <2>4, FlatSeq
  <2>6. QED
    BY <2>1, <2>2, <2>5 DEF j
<1> HIDE DEF S
<1>8. Nat \subseteq S
  BY <1>6, <1>7, Induct
<1>9. FileSum[At(i, k)] = File[i].data[k]
  <2>1. N - i \in Nat /\ i + (N - i) = N /\ N <= N /\ N - i \in S
    BY <1>1, <1>8
  <2>2. QED
    BY <1>2, <2>1 DEF S
<1>10. FileSum \in Seq(Data)
  BY <1>1, <1>2
<1>11. At(i, k) <= Len(FileSum)
  BY <1>1, <1>2, <1>3, <1>4
<1>12. QED
  BY <1>3, <1>5, <1>9, <1>10, <1>11

-----------------------------------------------------------------------------
(* What the tool and the device know of each other.  A device that fell    *)
(* back to the default session refuses the rest of the script, so that     *)
(* only what holds in session 2 matters.                                   *)

\* Every unit of the first n that were read back is in the flash as it was
\* read back, or as the same address was read back since.
StillThere(n, f, sum) ==
  \A i \in 1 .. Len(File) : \A k \in 1 .. Len(File[i].data) :
    At(i, k) <= n =>
      /\ UnitAddr(i, k) \in Cells
      /\ \E j \in 1 .. Len(File) : \E l \in 1 .. Len(File[j].data) :
           /\ At(j, l) <= n /\ UnitAddr(j, l) = UnitAddr(i, k)
           /\ f[UnitAddr(i, k)] = sum[At(j, l)]

\* The values are those of the file, as far as they go.
Matches(c) ==
  \A i \in 1 .. Len(File) : \A k \in 1 .. Len(File[i].data) :
    At(i, k) <= Len(c) => c[At(i, k)] = File[i].data[k]

Counted(n, s, f) ==
  s.session = 2 => Len(s.checksum) = n /\ StillThere(n, f, s.checksum)
InSegment(i, n, s) ==
  s.session = 2 => s.download_req_addr = File[i].addr /\ s.xfer_data_rcvd_cnt = n

NothingYet == svc.session = 2 => svc.checksum = <<>>
EraseOver  == pc = "poll" /\ erase.req = 0 /\ erase.state = 0 /\ ers = {}
InPlace    == FileInFlash /\ (AppFlagValid \/ unmarked)

Early   == {"seed", "key", "header", "erase", "erase_poll"}
Loading == {"download", "xfer", "exit", "check"}
Closing == {"check_poll", "reset", "done"}

\* What the device holds when the script is at a step.
Sync(step, seg, sent, pos) ==
  /\ step \in Early => NothingYet
  /\ step \in Loading => Counted(pos, svc, flash)
  /\ step = "xfer" => InSegment(seg, sent, svc)
  /\ step \in Loading \cup Closing => EraseOver
  /\ step = "check_poll" /\ csum.result = 1 => InPlace
  /\ step \in {"reset", "done"} => InPlace

\* What it holds when the reply r is under way.
Replied(r) ==
  Answers(r) =>
    /\ host.step \in Early \cup {"session"} => NothingYet
    /\ host.step = "seed" => r.val[2] \in Seeds
    /\ host.step = "erase_poll" /\ r.val[2] = 1 => EraseOver
    /\ host.step \in {"download", "exit"} => Counted(host.pos, svc, flash)
    /\ host.step = "xfer" => Counted(host.pos + 1, svc, flash)
    /\ host.step = "download" => InSegment(host.seg, 0, svc)
    /\ host.step = "xfer" => InSegment(host.seg, host.sent + 1, svc)
    /\ host.step \in Loading \cup {"check_poll", "reset"} => EraseOver
    /\ host.step \in {"check", "check_poll"} /\ csum.result = 1 => InPlace
    /\ host.step = "check_poll" /\ r.val[2] = 1 => InPlace
    /\ host.step = "reset" => InPlace

\* At most one datagram is under way, and only while the tool waits.
Channel ==
  \/ /\ rx = <<>> /\ tx = <<>>
     /\ ~host.waiting => Sync(host.step, host.seg, host.sent, host.pos)
  \/ /\ host.waiting /\ rx = <<Asked>> /\ tx = <<>>
     /\ Sync(host.step, host.seg, host.sent, host.pos)
  \/ host.waiting /\ rx = <<>> /\ Len(tx) = 1 /\ tx = <<tx[1]>> /\ Replied(tx[1])

\* The script's own variables.
Hosts ==
  [step : Steps \cup Ends \cup {"enter"}, waiting : BOOLEAN, seed : Seeds,
   seg : 1 .. Len(File), sent : Nat, sn : Nat, pos : Nat, crc : Seq(Data)]
StepSane(step, seg, sent, pos) ==
  /\ step \in Early \cup {"enter", "session"} => seg = 1 /\ pos = 0
  /\ step = "download" => pos = Start(seg)
  /\ step = "xfer" => pos = Start(seg) + sent /\ sent < Len(File[seg].data)
  /\ step \in {"exit", "check"} => pos = Len(FileSum)
HostSane ==
  /\ host \in Hosts
  /\ host.waiting => host.step \in Steps
  /\ StepSane(host.step, host.seg, host.sent, host.pos)
  /\ Matches(host.crc)
  /\ ~Encrypted /\ host.step # "failed" =>
       Len(host.crc) = IF host.step = "xfer" /\ host.waiting THEN host.pos + 1 ELSE host.pos

States ==
  [session : Nat, unlocked : SUBSET Nat, seed : Seeds, reset_req : BOOLEAN,
   flash_prog_state : {0, 1}, download_req_addr : Nat, download_req_size : Nat,
   encrypt_flag : BOOLEAN, expected_xfer_block_sn : Nat,
   xfer_data_rcvd_cnt : Nat, total_xfer_data_cnt : Nat, checksum : Seq(Content)]
Erases ==
  [state : 0 .. 2, req : 0 .. 1, result : 0 .. 2,
   address : {0, EraseRange[1]}, size : {0, EraseRange[2]}, failed : BOOLEAN]

\* The history follows the flash.
Remembered == InPlace /\ flash' = flash => InPlace'

\* The device's own: a result 1 is that of an erase that is over.
DeviceSane ==
  /\ flash \in [Cells -> Content]
  /\ svc \in States
  /\ erase \in Erases
  /\ csum \in [state : {0, 2}, result : 0 .. 2]
  /\ pc \in {"poll", "taken", "begin", "wait", "judge", "publish"}
  /\ pc # "poll" <=> erase.state = 1
  /\ erase.req = 1 => pc \in {"poll", "taken"} /\ erase.result = 0
  /\ ers # {} => pc = "wait"

Good   == late = {} /\ DeviceSane /\ HostSane /\ Channel
SysInv == copies \in Nat /\ (copies = 0 => Good)

-----------------------------------------------------------------------------
(* Blocks.                                                                 *)

LEMMA UnitAddrIs ==
  ASSUME NEW i \in 1 .. Len(File), NEW k \in 1 .. Len(File[i].data)
  PROVE  /\ UnitAddr(i, k) \in Cells \ {FlagAddr}
         /\ UnitAddr(i, k) \in Nat /\ UnitAddr(i, k) < AddrMod
         /\ File[i].data[k] \in Data
<1>1. /\ File[i].data \in Seq(Data) /\ Len(File[i].data) \in Nat
      /\ i \in DOMAIN File /\ k \in DOMAIN File[i].data
  BY FileIs
<1>2. UnitAddr(i, k) \in Cells \ {FlagAddr}
  BY <1>1, FileAssumption DEF UnitAddr
<1>3. \A a \in Cells : a \in Nat /\ a < AddrMod
  BY FlashMapAssumption DEF Cells, Span, Addr
<1>4. QED
  BY <1>1, <1>2, <1>3

LEMMA OneMore ==
  ASSUME NEW f \in [Cells -> Content], NEW sum \in Seq(Content), NEW v \in Content,
         NEW i \in 1 .. Len(File), NEW k \in 1 .. Len(File[i].data),
         UnitAddr(i, k) \in Cells, NEW g, g = [f EXCEPT ![UnitAddr(i, k)] = v],
         Len(sum) + 1 = At(i, k), StillThere(Len(sum), f, sum)
  PROVE  StillThere(Len(sum) + 1, g, Append(sum, v))
<1> DEFINE n == Len(sum)
           top == Append(sum, v)
<1>1. n \in Nat /\ top[n + 1] = v /\ \A m \in 1 .. n : top[m] = sum[m]
  OBVIOUS
<1>2. \A a \in Cells : g[a] = IF a = UnitAddr(i, k) THEN v ELSE f[a]
  OBVIOUS
<1> HIDE DEF n, top
<1>3. ASSUME NEW p \in 1 .. Len(File), NEW q \in 1 .. Len(File[p].data), At(p, q) <= n + 1
      PROVE  /\ UnitAddr(p, q) \in Cells
             /\ \E j \in 1 .. Len(File) : \E l \in 1 .. Len(File[j].data) :
                  /\ At(j, l) <= n + 1 /\ UnitAddr(j, l) = UnitAddr(p, q)
                  /\ g[UnitAddr(p, q)] = top[At(j, l)]
  <2>1. At(p, q) \in Nat \ {0} /\ At(i, k) = n + 1
    BY Places DEF n
  <2>2. CASE UnitAddr(p, q) = UnitAddr(i, k)
    <3>1. g[UnitAddr(p, q)] = top[At(i, k)] /\ At(i, k) <= n + 1
      BY <1>1, <1>2, <2>1, <2>2
    <3>2. QED
      BY <2>2, <3>1
  <2>3. CASE UnitAddr(p, q) # UnitAddr(i, k)
    <3>1. At(p, q) # At(i, k)
      BY <2>3, Places
    <3>2. At(p, q) <= n
      BY <1>1, <1>3, <2>1, <3>1
    <3>3. /\ UnitAddr(p, q) \in Cells
          /\ \E j \in 1 .. Len(File) : \E l \in 1 .. Len(File[j].data) :
               /\ At(j, l) <= n /\ UnitAddr(j, l) = UnitAddr(p, q)
               /\ f[UnitAddr(p, q)] = sum[At(j, l)]
      BY <3>2 DEF StillThere, n
    <3>8. PICK j \in 1 .. Len(File) : \E l \in 1 .. Len(File[j].data) :
            /\ At(j, l) <= n /\ UnitAddr(j, l) = UnitAddr(p, q)
            /\ f[UnitAddr(p, q)] = sum[At(j, l)]
      BY <3>3
    <3>4. PICK l \in 1 .. Len(File[j].data) :
            /\ At(j, l) <= n /\ UnitAddr(j, l) = UnitAddr(p, q)
            /\ f[UnitAddr(p, q)] = sum[At(j, l)]
      BY <3>8
    <3>5. At(j, l) \in 1 .. n /\ At(j, l) <= n + 1
      <4>1. At(j, l) \in Nat \ {0}
        BY Places
      <4>2. QED
        BY <1>1, <3>4, <4>1
    <3>6. g[UnitAddr(p, q)] = top[At(j, l)]
      BY <1>1, <1>2, <2>3, <3>3, <3>4, <3>5
    <3>7. QED
      BY <3>3, <3>4, <3>5, <3>6
  <2>4. QED
    BY <2>2, <2>3
<1>4. QED
  BY <1>3 DEF StillThere, n, top

LEMMA MoreMatches ==
  ASSUME NEW c \in Seq(Data), Matches(c),
         NEW i \in 1 .. Len(File), NEW k \in 1 .. Len(File[i].data), Len(c) + 1 = At(i, k)
  PROVE  Matches(Append(c, File[i].data[k]))
<1> DEFINE n == Len(c)
           v == File[i].data[k]
           top == Append(c, v)
<1>1. n \in Nat /\ Len(top) = n + 1 /\ top[n + 1] = v /\ \A m \in 1 .. n : top[m] = c[m]
  <2> HIDE DEF v
  <2>1. QED OBVIOUS
<1> HIDE DEF n, top
<1>2. ASSUME NEW p \in 1 .. Len(File), NEW q \in 1 .. Len(File[p].data), At(p, q) <= n + 1
      PROVE  top[At(p, q)] = File[p].data[q]
  <2>1. At(p, q) \in Nat \ {0} /\ At(i, k) = n + 1
    BY Places DEF n
  <2>2. CASE At(p, q) = n + 1
    <3>1. p = i /\ q = k
      BY <2>1, <2>2, Places
    <3>2. QED
      BY <1>1, <2>2, <3>1
  <2>3. CASE At(p, q) # n + 1
    <3>1. At(p, q) \in 1 .. n /\ At(p, q) <= n
      BY <1>1, <1>2, <2>1, <2>3
    <3>2. c[At(p, q)] = File[p].data[q]
      BY <3>1 DEF Matches, n
    <3>3. QED
      BY <1>1, <3>1, <3>2
  <2>4. QED
    BY <2>2, <2>3
<1>3. QED
  BY <1>1, <1>2 DEF Matches, top

\* When all units were read back and the checksums agree, the file is there.
LEMMA AllThere ==
  ASSUME NEW f, NEW c, Matches(c), Len(c) = Len(FileSum), StillThere(Len(FileSum), f, c),
         NEW i \in 1 .. Len(File), NEW k \in 1 .. Len(File[i].data)
  PROVE  UnitAddr(i, k) \in Cells /\ f[UnitAddr(i, k)] = File[i].data[k]
<1>1. At(i, k) <= Len(FileSum)
  BY Places
<1>2. /\ UnitAddr(i, k) \in Cells
      /\ \E j \in 1 .. Len(File) : \E l \in 1 .. Len(File[j].data) :
           /\ At(j, l) <= Len(FileSum) /\ UnitAddr(j, l) = UnitAddr(i, k)
           /\ f[UnitAddr(i, k)] = c[At(j, l)]
  BY <1>1 DEF StillThere
<1>8. PICK j \in 1 .. Len(File) : \E l \in 1 .. Len(File[j].data) :
        /\ At(j, l) <= Len(FileSum) /\ UnitAddr(j, l) = UnitAddr(i, k)
        /\ f[UnitAddr(i, k)] = c[At(j, l)]
  BY <1>2
<1>3. PICK l \in 1 .. Len(File[j].data) :
        /\ At(j, l) <= Len(FileSum) /\ UnitAddr(j, l) = UnitAddr(i, k)
        /\ f[UnitAddr(i, k)] = c[At(j, l)]
  BY <1>8
<1>4. c[At(j, l)] = File[j].data[l]
  BY <1>3 DEF Matches
<1>5. File[j].addr + l = File[i].addr + k
  <2> DEFINE a == File[j].addr
             b == File[i].addr
  <2>1. a \in Nat /\ b \in Nat /\ k \in Nat /\ l \in Nat
    BY FileIs
  <2>2. a + l - 1 = b + k - 1
    BY <1>3 DEF UnitAddr
  <2> HIDE DEF a, b
  <2>3. a + l = b + k
    BY <2>1, <2>2
  <2>4. QED
    BY <2>3 DEF a, b
<1>6. File[j].data[l] = File[i].data[k]
  <2>1. /\ i \in DOMAIN File /\ j \in DOMAIN File
        /\ k \in DOMAIN File[i].data /\ l \in DOMAIN File[j].data
    BY FileIs
  <2>2. \A x, y \in DOMAIN File : \A m \in DOMAIN File[x].data, n \in DOMAIN File[y].data :
          File[x].addr + m = File[y].addr + n => File[x].data[m] = File[y].data[n]
    BY FileAssumption
  <2>3. QED
    BY <1>5, <2>1, <2>2
<1>7. QED
  BY <1>2, <1>3, <1>4, <1>6

-----------------------------------------------------------------------------
(* The device on its own.                                                  *)

\* A step of the device that takes nothing back that the script relies on.
Calm ==
  /\ EraseOver => EraseOver' /\ flash' = flash
  /\ csum'.result = 1 => csum.result = 1
  /\ svc'.session = 2 => svc' = svc

LEMMA CalmKeeps ==
  ASSUME Calm, Remembered, UNCHANGED host
  PROVE  /\ Sync(host.step, host.seg, host.sent, host.pos)
              => Sync(host.step, host.seg, host.sent, host.pos)'
         /\ \A r : Replied(r) => Replied(r)'
<1>1. NothingYet => NothingYet'
  BY DEF Calm, NothingYet
<1>2. EraseOver => \A n : Counted(n, svc, flash) => Counted(n, svc', flash')
  BY DEF Calm, Counted
<1>3. \A i, n : InSegment(i, n, svc) => InSegment(i, n, svc')
  BY DEF Calm, InSegment
<1>4. EraseOver => EraseOver' /\ (InPlace => InPlace')
  BY DEF Calm, Remembered
<1>5. csum'.result = 1 => csum.result = 1
  BY DEF Calm
<1>6. Sync(host.step, host.seg, host.sent, host.pos)
        => Sync(host.step, host.seg, host.sent, host.pos)'
  BY <1>1, <1>2, <1>3, <1>4, <1>5 DEF Sync, Loading, Closing
<1>7. ASSUME NEW r, Replied(r) PROVE Replied(r)'
  <2>1. Answers(r)' <=> Answers(r)
    BY DEF Answers, Asked, Segment, Block
  <2>2. QED
    BY <1>1, <1>2, <1>3, <1>4, <1>5, <1>7, <2>1 DEF Replied, Loading
<1>8. QED
  BY <1>6, <1>7

LEMMA AtRest ==
  ASSUME DeviceSane, Inert
  PROVE  DeviceSane' /\ Calm
BY DEF DeviceSane, Inert, Calm, EraseOver, bootVars, taskVars, flashVars, hist

LEMMA SilenceCalm ==
  ASSUME DeviceSane, Silence
  PROVE  DeviceSane' /\ Calm
<1>1. ServiceInit \in States /\ ServiceInit.session = 1
  BY BootServerAssumption DEF ServiceInit, States
<1>2. svc' = ServiceInit /\ UNCHANGED <<erase, pc, csum, flash, ers>>
  BY DEF Silence, taskVars, flashVars
<1>3. DeviceSane'
  BY <1>1, <1>2 DEF DeviceSane
<1>4. Calm
  BY <1>1, <1>2 DEF Calm, EraseOver
<1>5. QED
  BY <1>3, <1>4

LEMMA Cut ==
  ASSUME flash \in [Cells -> Content], CutErase
  PROVE  /\ flash' \in [Cells -> Content] /\ ers' = {}
         /\ ers = {} => flash' = flash
         /\ \A a \in Cells : flash'[a] \in {flash[a], Erased, Damaged}
<1>1. Erased \in Content /\ Damaged \in Content
  BY DEF Content
<1>2. PICK cut \in [UnderErase -> {"kept", "wiped", "half"}] :
       flash' = [a \in Cells |->
                   IF a \notin UnderErase \/ cut[a] = "kept" THEN flash[a]
                   ELSE IF cut[a] = "wiped" THEN Erased ELSE Damaged]
  BY DEF CutErase
<1>3. ers' = {}
  BY DEF CutErase
<1>4. ASSUME NEW a \in Cells PROVE flash'[a] \in {flash[a], Erased, Damaged}
  BY <1>2
<1>5. flash' \in [Cells -> Content]
  BY <1>1, <1>2
<1>6. ers = {} => flash' = flash
  <2>1. ers = {} => UnderErase = {}
    BY DEF UnderErase
  <2>2. ers = {} => flash' = [a \in Cells |-> flash[a]]
    BY <1>2, <2>1
  <2>3. QED
    BY <2>2
<1>7. QED
  BY <1>3, <1>4, <1>5, <1>6

LEMMA StartUpCalm ==
  ASSUME DeviceSane, NEW asked, StartUp(asked)
  PROVE  DeviceSane' /\ Calm
<1>1. ServiceInit \in States /\ ServiceInit.session = 1
  BY BootServerAssumption DEF ServiceInit, States
<1>2. svc' = ServiceInit /\ erase' = EraseInit /\ csum' = CsumInit /\ pc' = "poll" /\ CutErase
  BY DEF StartUp
<1>3. flash' \in [Cells -> Content] /\ ers' = {} /\ (ers = {} => flash' = flash)
  BY <1>2, Cut DEF DeviceSane
<1>4. DeviceSane'
  BY <1>1, <1>2, <1>3 DEF DeviceSane, EraseInit, CsumInit, Erases
<1>5. Calm
  BY <1>1, <1>2, <1>3 DEF Calm, EraseOver, EraseInit, CsumInit
<1>6. QED
  BY <1>4, <1>5

LEMMA TaskCalm ==
  ASSUME DeviceSane, EraseTask
  PROVE  DeviceSane' /\ Calm /\ UNCHANGED <<svc, csum, tx, mode>>
<1>1. UNCHANGED <<svc, csum, tx, mode>>
  BY DEF EraseTask, TakeErase, ClearRequest, BeginErase, EndErase, JudgeErase, PublishErase,
         TaskOnly, bootVars
<1>2. ~EraseOver
  BY DEF EraseOver, EraseTask, TakeErase, ClearRequest, BeginErase, EndErase, JudgeErase,
         PublishErase
<1>3. Calm
  BY <1>1, <1>2 DEF Calm
<1>4. /\ erase \in Erases /\ flash \in [Cells -> Content]
      /\ pc # "poll" <=> erase.state = 1
      /\ erase.req = 1 => pc \in {"poll", "taken"} /\ erase.result = 0
      /\ ers # {} => pc = "wait"
  BY DEF DeviceSane
<1>5. CASE TakeErase
  <2>1. erase' \in Erases
    BY <1>4, <1>5 DEF TakeErase, flashVars, Erases
  <2>2. erase'.state = 1 /\ erase'.req = 1 /\ erase'.result = 0
    BY <1>4, <1>5 DEF TakeErase, flashVars, Erases
  <2>3. pc' = "taken" /\ ers = {} /\ flash' = flash /\ ers' = ers
    BY <1>4, <1>5 DEF TakeErase, flashVars, Erases
  <2>4. QED
    BY <1>1, <1>3, <1>4, <2>1, <2>2, <2>3 DEF DeviceSane
<1>6. CASE ClearRequest
  <2>1. erase' \in Erases
    BY <1>4, <1>6 DEF ClearRequest, flashVars, Erases
  <2>2. erase'.state = 1 /\ erase'.req = 0
    BY <1>4, <1>6 DEF ClearRequest, flashVars, Erases
  <2>3. pc' = "begin" /\ ers = {} /\ flash' = flash /\ ers' = ers
    BY <1>4, <1>6 DEF ClearRequest, flashVars, Erases
  <2>4. QED
    BY <1>1, <1>3, <1>4, <2>1, <2>2, <2>3 DEF DeviceSane
<1>7. CASE BeginErase
  <2>1. erase' \in Erases
    BY <1>4, <1>7 DEF BeginErase, EraseBegins, EraseOfNothing, EraseNotEnabled, Erases
  <2>2. erase'.state = 1 /\ erase'.req = 0
    BY <1>4, <1>7 DEF BeginErase, EraseBegins, EraseOfNothing, EraseNotEnabled, Erases
  <2>3. pc = "begin" /\ flash' = flash
    BY <1>7 DEF BeginErase, EraseBegins, EraseOfNothing, EraseNotEnabled
  <2>4. ers = {}
    BY <1>4, <2>3
  <2>5. pc' = "wait" \/ pc' = "judge"
    BY <1>7 DEF BeginErase
  <2>6. pc' = "wait" \/ ers' = {}
    BY <1>7, <2>4 DEF BeginErase, EraseBegins, EraseOfNothing, EraseNotEnabled
  <2>7. QED
    BY <1>1, <1>3, <1>4, <2>1, <2>2, <2>3, <2>5, <2>6 DEF DeviceSane
<1>8. CASE EndErase
  <2>1. erase' \in Erases
    BY <1>4, <1>8 DEF EndErase, Erases
  <2>2. erase'.state = 1 /\ erase'.req = 0 /\ pc' = "judge"
    BY <1>4, <1>8 DEF EndErase, Erases
  <2>3. flash' \in [Cells -> Content] /\ ers' = {}
    <3>1. CASE EraseDone
      BY <1>4, <3>1 DEF EraseDone, Content
    <3>2. CASE EraseFailed
      BY <1>4, <3>2, Cut DEF EraseFailed
    <3>3. QED
      BY <1>8, <3>1, <3>2 DEF EndErase
  <2>4. QED
    BY <1>1, <1>3, <1>4, <2>1, <2>2, <2>3 DEF DeviceSane
<1>9. CASE JudgeErase
  <2>1. erase' \in Erases
    BY <1>4, <1>9 DEF JudgeErase, EraseVerdict, flashVars, Erases
  <2>2. erase'.state = 1 /\ erase'.req = 0
    BY <1>4, <1>9 DEF JudgeErase, EraseVerdict, flashVars, Erases
  <2>3. pc' = "publish" /\ ers = {} /\ flash' = flash /\ ers' = ers
    BY <1>4, <1>9 DEF JudgeErase, EraseVerdict, flashVars, Erases
  <2>4. QED
    BY <1>1, <1>3, <1>4, <2>1, <2>2, <2>3 DEF DeviceSane
<1>10. CASE PublishErase
  <2>1. erase' \in Erases
    BY <1>4, <1>10 DEF PublishErase, flashVars, Erases
  <2>2. erase'.state = 2 /\ erase'.req = 0
    BY <1>4, <1>10 DEF PublishErase, flashVars, Erases
  <2>3. pc' = "poll" /\ ers = {} /\ flash' = flash /\ ers' = ers
    BY <1>4, <1>10 DEF PublishErase, flashVars, Erases
  <2>4. QED
    BY <1>1, <1>3, <1>4, <2>1, <2>2, <2>3 DEF DeviceSane
<1>11. QED
  BY <1>1, <1>3, <1>5, <1>6, <1>7, <1>8, <1>9, <1>10 DEF EraseTask

-----------------------------------------------------------------------------
(* The handlers.                                                           *)

LEMMA Sent ==
  ASSUME tx = <<>>, NEW sid, NEW nrc, NEW val, Send(sid, nrc, val)
  PROVE  tx' = <<[sid |-> sid, nrc |-> nrc, val |-> val]>>
BY BootSystemAssumption DEF Send

LEMMA Refused ==
  ASSUME tx = <<>>, NEW sid, NEW codes, 0 \notin codes, Reject(sid, codes)
  PROVE  \E r : tx' = <<r>> /\ r.nrc # 0
<1>1. PICK nrc \in codes : Send(sid, nrc, <<>>)
  BY DEF Reject
<1>2. tx' = <<[sid |-> sid, nrc |-> nrc, val |-> <<>>]>>
  BY <1>1, Sent
<1>3. nrc # 0
  BY <1>1
<1>4. [sid |-> sid, nrc |-> nrc, val |-> <<>>].nrc # 0
  BY <1>3
<1>5. QED
  BY <1>2, <1>4

LEMMA OnlySvc ==
  ASSUME DeviceSane, svc' \in States, UNCHANGED <<flash, ers, erase, pc, csum>>
  PROVE  DeviceSane' /\ (EraseOver => EraseOver')
BY DEF DeviceSane, EraseOver

LEMMA RefuseDoes ==
  ASSUME tx = <<>>, NEW sid, Refuse(sid)
  PROVE  Inert /\ \E r : tx' = <<r>> /\ r.nrc # 0
<1> DEFINE codes == {IF InSession(sid) THEN AccessDenied ELSE NotInThisSession}
<1>1. Inert /\ Reject(sid, codes)
  BY DEF Refuse
<1>2. 0 \notin codes
  BY DEF AccessDenied, NotInThisSession
<1> HIDE DEF codes
<1>3. QED
  BY <1>1, <1>2, Refused

LEMMA SessionDoes ==
  ASSUME DeviceSane, tx = <<>>, SessionCtrl(2)
  PROVE  /\ DeviceSane'
         /\ \E r : tx' = <<r>> /\ NothingYet'
<1>1. svc' = NewSession(2) /\ Send("session_ctrl", 0, <<>>)
      /\ UNCHANGED <<flash, ers, erase, pc, csum>>
  BY DEF SessionCtrl, Accept, taskVars, flashVars
<1>2. NewSession(2) \in States /\ NewSession(2).checksum = <<>>
  <2>1. ServiceInit \in States /\ ServiceInit.checksum = <<>>
    BY BootServerAssumption DEF ServiceInit, States
  <2>2. \A s \in States : LET t == [s EXCEPT !.session = 2]
                          IN  t \in States /\ t.checksum = s.checksum
    BY DEF States
  <2>3. QED
    BY <2>1, <2>2 DEF NewSession
<1>3. DeviceSane'
  BY <1>1, <1>2, OnlySvc
<1>4. NothingYet'
  BY <1>1, <1>2 DEF NothingYet
<1>5. QED
  BY <1>1, <1>3, <1>4, Sent

LEMMA SeedDoes ==
  ASSUME DeviceSane, tx = <<>>, RequestSeed
  PROVE  /\ DeviceSane'
         /\ NothingYet => NothingYet'
         /\ \E r : tx' = <<r>> /\ r.val[2] \in Seeds
<1>1. PICK s \in Seeds : svc' = [svc EXCEPT !.seed = s] /\ Send("security", 0, <<"seed", s>>)
  BY DEF RequestSeed
<1>2. UNCHANGED <<flash, ers, erase, pc, csum>>
  BY DEF RequestSeed, SvcAlone, taskVars, flashVars
<1>3. svc \in States
  BY DEF DeviceSane
<1>4. svc' \in States /\ svc'.session = svc.session /\ svc'.checksum = svc.checksum
  BY <1>1, <1>3 DEF States
<1>5. DeviceSane'
  BY <1>2, <1>4, OnlySvc
<1>6. NothingYet => NothingYet'
  BY <1>4 DEF NothingYet
<1>7. tx' = <<[sid |-> "security", nrc |-> 0, val |-> <<"seed", s>>]>>
  BY <1>1, Sent
<1>8. [sid |-> "security", nrc |-> 0, val |-> <<"seed", s>>].val[2] \in Seeds
  OBVIOUS
<1>9. QED
  BY <1>5, <1>6, <1>7, <1>8

LEMMA KeyDoes ==
  ASSUME DeviceSane, tx = <<>>, NEW key, SendKey(key)
  PROVE  /\ DeviceSane'
         /\ NothingYet => NothingYet'
         /\ \E r : tx' = <<r>>
<1>1. UNCHANGED <<flash, ers, erase, pc, csum>>
  BY DEF SendKey, SvcAlone, taskVars, flashVars
<1>2. svc \in States
  BY DEF DeviceSane
<1>3. svc' \in {svc, [svc EXCEPT !.unlocked = @ \cup {svc.session}, !.seed = 0],
                     [svc EXCEPT !.unlocked = @ \ {svc.session}, !.seed = 0]}
  BY DEF SendKey
<1>4. svc' \in States /\ svc'.session = svc.session /\ svc'.checksum = svc.checksum
  <2>1. svc.session \in Nat /\ svc.unlocked \in SUBSET Nat /\ 0 \in Seeds
    BY <1>2, BootServerAssumption DEF States
  <2>2. \A s \in States : \A u \in SUBSET Nat :
          LET t == [s EXCEPT !.unlocked = u, !.seed = 0]
          IN  t \in States /\ t.session = s.session /\ t.checksum = s.checksum
    BY <2>1 DEF States
  <2>3. svc.unlocked \cup {svc.session} \in SUBSET Nat
        /\ svc.unlocked \ {svc.session} \in SUBSET Nat
    BY <2>1
  <2>4. \A u \in SUBSET Nat :
          svc' = [svc EXCEPT !.unlocked = u, !.seed = 0] =>
            svc' \in States /\ svc'.session = svc.session /\ svc'.checksum = svc.checksum
    BY <1>2, <2>2, Zenon
  <2>5. svc' = svc \/ \E u \in SUBSET Nat : svc' = [svc EXCEPT !.unlocked = u, !.seed = 0]
    BY <1>3, <2>3, Zenon
  <2>6. QED
    BY <1>2, <2>4, <2>5
<1>5. DeviceSane'
  BY <1>1, <1>4, OnlySvc
<1>6. NothingYet => NothingYet'
  BY <1>4 DEF NothingYet
<1>7. \E sid, nrc, val : Send(sid, nrc, val)
  BY DEF SendKey, Reject
<1>8. QED
  BY <1>5, <1>6, <1>7, Sent

LEMMA HeaderDoes ==
  ASSUME DeviceSane, tx = <<>>, NEW h, WriteHeader(h)
  PROVE  /\ DeviceSane'
         /\ NothingYet => NothingYet'
         /\ \E r : tx' = <<r>>
<1>1. UNCHANGED <<flash, ers, erase, pc, csum, svc>> /\ Send("write_id", 0, <<>>)
  BY DEF WriteHeader, Accept, taskVars, flashVars
<1>2. DeviceSane'
  BY <1>1, OnlySvc DEF DeviceSane
<1>3. QED
  BY <1>1, <1>2, Sent DEF NothingYet

LEMMA Armed ==
  ASSUME NEW e \in Erases, NEW a \in {0, EraseRange[1]}, NEW n \in {0, EraseRange[2]},
         NEW t, t = [e EXCEPT !.result = 0, !.address = a, !.size = n, !.req = 1]
  PROVE  /\ t \in Erases /\ t.state = e.state /\ t.result = 0
         /\ t.address = a /\ t.size = n
<1>1. t = [state |-> e.state, req |-> 1, result |-> 0, address |-> a, size |-> n,
           failed |-> e.failed]
  BY DEF Erases
<1>2. [state |-> e.state, req |-> 1, result |-> 0, address |-> a, size |-> n,
       failed |-> e.failed] \in Erases
  BY DEF Erases
<1>3. QED
  BY <1>1, <1>2

LEMMA EraseDoes ==
  ASSUME DeviceSane, tx = <<>>, NEW a \in {0, EraseRange[1]}, NEW n \in {0, EraseRange[2]},
         EraseStart(a, n)
  PROVE  /\ DeviceSane'
         /\ NothingYet => NothingYet'
         /\ \E r : tx' = <<r>>
<1>1. UNCHANGED <<flash, ers, pc, csum, svc>>
  BY DEF EraseStart, flashVars
<1>2. erase' = erase \/ (~EraseBusy /\ erase' = ArmErase(a, n))
  <2>1. erase' = erase \/ erase' = ArmErase(a, n)
    BY DEF EraseStart
  <2>2. erase' # erase => ~EraseBusy
    BY DEF EraseStart
  <2>3. QED
    BY <2>1, <2>2
<1>3. erase \in Erases /\ (pc # "poll" <=> erase.state = 1)
  BY DEF DeviceSane
<1>4. DeviceSane'
  <2>1. CASE erase' = erase
    BY <1>1, <2>1, OnlySvc DEF DeviceSane
  <2>2. CASE ~EraseBusy /\ erase' = ArmErase(a, n)
    <3>1. ArmErase(a, n) \in Erases /\ ArmErase(a, n).state = erase.state
          /\ ArmErase(a, n).result = 0
      BY <1>3, Armed DEF ArmErase
    <3>2. erase.state # 1 /\ pc = "poll"
      BY <1>3, <2>2 DEF EraseBusy
    <3>3. QED
      BY <1>1, <2>2, <3>1, <3>2 DEF DeviceSane
  <2>3. QED
    BY <1>2, <2>1, <2>2
<1>5. \E sid, nrc, val : Send(sid, nrc, val)
  BY DEF EraseStart, Reject
<1>6. QED
  BY <1>1, <1>4, <1>5, Sent DEF NothingYet

LEMMA EraseResultDoes ==
  ASSUME DeviceSane, tx = <<>>, EraseResult
  PROVE  /\ DeviceSane' /\ UNCHANGED svc
         /\ \E r : tx' = <<r>> /\ (r.nrc = 0 /\ r.val[2] = 1 =>
                                    EraseOver' /\ erase.state = 2 /\ erase.result = 1)
<1>1. UNCHANGED <<flash, ers, pc, csum, svc>>
  BY DEF EraseResult, flashVars
<1>2. /\ erase \in Erases /\ (pc # "poll" <=> erase.state = 1)
      /\ erase.req = 1 => erase.result = 0
      /\ ers # {} => pc = "wait"
      /\ pc \in {"poll", "taken", "begin", "wait", "judge", "publish"}
  BY DEF DeviceSane
<1>3. CASE erase.state = 2 /\ erase' = [erase EXCEPT !.state = 0]
           /\ Send("routine", 0, <<"erase_result", erase.result>>)
  <2>1. erase' \in Erases /\ erase'.state = 0 /\ erase'.req = erase.req
        /\ erase'.result = erase.result
    BY <1>2, <1>3 DEF Erases
  <2>2. pc = "poll" /\ ers = {}
    BY <1>2, <1>3
  <2>3. DeviceSane'
    BY <1>1, <2>1, <2>2 DEF DeviceSane
  <2>4. erase.result = 1 => EraseOver'
    <3>1. erase.req \in {0, 1}
      BY <1>2 DEF Erases
    <3>2. QED
      BY <1>1, <1>2, <2>1, <2>2, <3>1 DEF EraseOver
  <2> DEFINE r == [sid |-> "routine", nrc |-> 0, val |-> <<"erase_result", erase.result>>]
  <2>5. tx' = <<r>> /\ r.val[2] = erase.result
    BY <1>3, Sent
  <2> HIDE DEF r
  <2>6. QED
    BY <1>1, <1>3, <2>3, <2>4, <2>5
<1>4. CASE erase' = erase /\ Send("routine", 0, <<"erase_result", 0>>)
  <2>1. DeviceSane'
    BY <1>1, <1>4 DEF DeviceSane
  <2> DEFINE r == [sid |-> "routine", nrc |-> 0, val |-> <<"erase_result", 0>>]
  <2>2. tx' = <<r>> /\ r.val[2] = 0
    BY <1>4, Sent
  <2> HIDE DEF r
  <2>3. QED
    BY <1>1, <2>1, <2>2
<1>5. CASE erase' = erase /\ Reject("routine", {SequenceError})
  <2>1. DeviceSane'
    BY <1>1, <1>5 DEF DeviceSane
  <2>2. 0 \notin {SequenceError}
    BY DEF SequenceError
  <2>3. \E r : tx' = <<r>> /\ r.nrc # 0
    BY <1>5, <2>2, Refused
  <2>4. QED
    BY <1>1, <2>1, <2>3
<1>6. QED
  BY <1>3, <1>4, <1>5 DEF EraseResult

LEMMA ServedInTwo ==
  ASSUME NEW sid \in {"routine", "download", "xfer", "exit"}, Served(sid)
  PROVE  svc.session = 2
BY DEF Served, InSession, Service

LEMMA DownloadDoes ==
  ASSUME DeviceSane, tx = <<>>, NEW a \in Nat, NEW n \in Nat, NEW enc \in BOOLEAN,
         DownloadReq(a, n, enc)
  PROVE  /\ DeviceSane' /\ (EraseOver => EraseOver') /\ UNCHANGED flash
         /\ svc'.session = svc.session /\ svc'.checksum = svc.checksum
         /\ \E r : tx' = <<r>> /\ (r.nrc = 0 => /\ svc'.download_req_addr = a
                                                /\ svc'.xfer_data_rcvd_cnt = 0)
<1>1. UNCHANGED <<flash, ers, erase, pc, csum>>
  BY DEF DownloadReq, taskVars, flashVars
<1>2. svc \in States /\ 1 % SnMod \in Nat
  BY BootServerAssumption DEF DeviceSane
<1>3. CASE svc' = OpenTransfer(a, n, enc) /\ Send("download", 0, <<>>)
  <2>1. svc' = [session |-> svc.session, unlocked |-> svc.unlocked, seed |-> svc.seed,
                reset_req |-> svc.reset_req, flash_prog_state |-> 1,
                download_req_addr |-> a, download_req_size |-> n, encrypt_flag |-> enc,
                expected_xfer_block_sn |-> 1 % SnMod, xfer_data_rcvd_cnt |-> 0,
                total_xfer_data_cnt |-> svc.total_xfer_data_cnt, checksum |-> svc.checksum]
    BY <1>2, <1>3 DEF OpenTransfer, States
  <2>2. svc' \in States
    BY <1>2, <2>1 DEF States
  <2>3. \E r : tx' = <<r>>
    BY <1>3, Sent
  <2>4. QED
    BY <1>1, <2>1, <2>2, <2>3, OnlySvc
<1>4. CASE svc' = [svc EXCEPT !.flash_prog_state = 0] /\ Reject("download", {OutOfRange})
  <2>1. svc' \in States /\ svc'.session = svc.session /\ svc'.checksum = svc.checksum
    BY <1>2, <1>4 DEF States
  <2>2. 0 \notin {OutOfRange}
    BY DEF OutOfRange
  <2>3. \E r : tx' = <<r>> /\ r.nrc # 0
    BY <1>4, <2>2, Refused
  <2>4. QED
    BY <1>1, <2>1, <2>3, OnlySvc
<1>5. QED
  BY <1>3, <1>4 DEF DownloadReq, Accept

LEMMA ExitDoes ==
  ASSUME DeviceSane, tx = <<>>, ExitXfer
  PROVE  /\ DeviceSane' /\ (EraseOver => EraseOver') /\ UNCHANGED flash
         /\ svc'.session = svc.session /\ svc'.checksum = svc.checksum
         /\ \E r : tx' = <<r>>
<1>1. UNCHANGED <<flash, ers, erase, pc, csum>>
  BY DEF ExitXfer, SvcAlone, taskVars, flashVars
<1>2. svc \in States
  BY DEF DeviceSane
<1>3. svc' \in States /\ svc'.session = svc.session /\ svc'.checksum = svc.checksum
  BY <1>2 DEF ExitXfer, States
<1>4. \E sid, nrc, val : Send(sid, nrc, val)
  BY DEF ExitXfer, Reject
<1>5. QED
  BY <1>1, <1>3, <1>4, OnlySvc, Sent

LEMMA ResetDoes ==
  ASSUME DeviceSane, tx = <<>>, RequestReset
  PROVE  /\ DeviceSane' /\ (EraseOver => EraseOver') /\ UNCHANGED flash
         /\ \E r : tx' = <<r>>
<1>1. UNCHANGED <<flash, ers, erase, pc, csum>>
  BY DEF RequestReset, SvcAlone, taskVars, flashVars
<1>2. svc \in States
  BY DEF DeviceSane
<1>3. svc' \in States
  BY <1>2 DEF RequestReset, States
<1>4. Send("reset", 0, <<>>)
  BY DEF RequestReset, Accept
<1>5. QED
  BY <1>1, <1>3, <1>4, OnlySvc, Sent

LEMMA ChecksumResultDoes ==
  ASSUME DeviceSane, tx = <<>>, ChecksumResult
  PROVE  /\ DeviceSane' /\ (EraseOver => EraseOver') /\ UNCHANGED flash
         /\ csum'.result = csum.result
         /\ \E r : tx' = <<r>> /\ (r.nrc = 0 => r.val[2] = csum.result)
<1>1. UNCHANGED <<flash, ers, erase, pc, svc>>
  BY DEF ChecksumResult, taskVars, flashVars
<1>2. csum \in [state : {0, 2}, result : 0 .. 2]
  BY DEF DeviceSane
<1>3. csum' \in [state : {0, 2}, result : 0 .. 2] /\ csum'.result = csum.result
  BY <1>2 DEF ChecksumResult
<1>4. DeviceSane'
  BY <1>1, <1>3 DEF DeviceSane
<1>5. EraseOver => EraseOver'
  BY <1>1 DEF EraseOver
<1>6. \E r : tx' = <<r>> /\ (r.nrc = 0 => r.val[2] = csum.result)
  <2>1. CASE Send("routine", 0, <<"checksum_result", csum.result>>)
    <3> DEFINE r == [sid |-> "routine", nrc |-> 0, val |-> <<"checksum_result", csum.result>>]
    <3>1. tx' = <<r>> /\ r.val[2] = csum.result
      BY <2>1, Sent
    <3> HIDE DEF r
    <3>2. QED
      BY <3>1
  <2>2. CASE Reject("routine", {SequenceError})
    <3>1. 0 \notin {SequenceError}
      BY DEF SequenceError
    <3>2. \E r : tx' = <<r>> /\ r.nrc # 0
      BY <2>2, <3>1, Refused
    <3>3. QED
      BY <3>2
  <2>3. QED
    BY <2>1, <2>2 DEF ChecksumResult
<1>7. QED
  BY <1>1, <1>3, <1>4, <1>5, <1>6

LEMMA NextUnit ==
  ASSUME svc.session = 2, NEW i \in 1 .. Len(File), NEW m \in Nat,
         m < Len(File[i].data), InSegment(i, m, svc)
  PROVE  m + 1 \in 1 .. Len(File[i].data) /\ NextAddr = UnitAddr(i, m + 1)
<1>1. m + 1 \in 1 .. Len(File[i].data) /\ File[i].addr \in Nat
  BY FileIs
<1>2. UnitAddr(i, m + 1) \in Nat /\ UnitAddr(i, m + 1) < AddrMod /\ AddrMod \in Nat
  BY <1>1, UnitAddrIs, FlashMapAssumption
<1>3. UnitAddr(i, m + 1) = File[i].addr + m
  BY <1>1 DEF UnitAddr
<1>4. NextAddr = (File[i].addr + m) % AddrMod
  BY DEF InSegment, NextAddr, Plus
<1>5. QED
  <2> DEFINE u == UnitAddr(i, m + 1)
             a == File[i].addr + m
  <2>1. u = a /\ NextAddr = a % AddrMod
    BY <1>3, <1>4
  <2>2. u \in Nat /\ u < AddrMod /\ AddrMod \in Nat
    BY <1>2
  <2> HIDE DEF u, a
  <2>3. a % AddrMod = a
    BY <2>1, <2>2
  <2>4. QED
    BY <1>1, <2>1, <2>3 DEF u

\* A unit that is written is read back as it is in the flash.
LEMMA TakeDoes ==
  ASSUME DeviceSane, tx = <<>>, EraseOver, svc.session = 2,
         NEW i \in 1 .. Len(File), NEW m \in Nat, NEW n \in Nat,
         m < Len(File[i].data), InSegment(i, m, svc),
         n = Start(i) + m, Counted(n, svc, flash),
         NEW b, NEW w \in Content, flash' = [flash EXCEPT ![NextAddr] = w], TakeUnit(b)
  PROVE  /\ flash' \in [Cells -> Content] /\ svc' \in States
         /\ Counted(n + 1, svc', flash') /\ InSegment(i, m + 1, svc')
         /\ \E r : tx' = <<r>>
<1> DEFINE k == m + 1
           a == UnitAddr(i, k)
<1>1. k \in 1 .. Len(File[i].data) /\ NextAddr = a
  BY NextUnit
<1>2. flash \in [Cells -> Content] /\ svc \in States
  BY DEF DeviceSane
<1>3. a \in Cells /\ flash' = [flash EXCEPT ![a] = w]
  BY <1>1, UnitAddrIs
<1>4. PICK v \in CrcOver(b) :
        svc' = [svc EXCEPT !.checksum = Append(@, v),
                           !.expected_xfer_block_sn = (@ + 1) % SnMod,
                           !.xfer_data_rcvd_cnt = @ + 1,
                           !.total_xfer_data_cnt = @ + 1]
  BY DEF TakeUnit
<1>5. v = w
  <2>1. UnderErase = {}
    BY DEF EraseOver, UnderErase
  <2>2. CrcOver(b) = {flash'[a]}
    BY <1>1, <1>3, <2>1 DEF CrcOver, Read
  <2>3. flash'[a] = w
    BY <1>2, <1>3
  <2>4. QED
    BY <1>4, <2>2, <2>3
<1>6. v \in Content
  BY <1>5
<1>7. /\ svc.checksum \in Seq(Content) /\ svc.expected_xfer_block_sn \in Nat
      /\ svc.xfer_data_rcvd_cnt \in Nat /\ svc.total_xfer_data_cnt \in Nat
  BY <1>2 DEF States
<1>8. (svc.expected_xfer_block_sn + 1) % SnMod \in Nat
  BY <1>7, BootServerAssumption
<1>9. Append(svc.checksum, v) \in Seq(Content)
  BY <1>6, <1>7
<1>10. svc' = [session |-> svc.session, unlocked |-> svc.unlocked, seed |-> svc.seed,
               reset_req |-> svc.reset_req, flash_prog_state |-> svc.flash_prog_state,
               download_req_addr |-> svc.download_req_addr,
               download_req_size |-> svc.download_req_size,
               encrypt_flag |-> svc.encrypt_flag,
               expected_xfer_block_sn |-> (svc.expected_xfer_block_sn + 1) % SnMod,
               xfer_data_rcvd_cnt |-> svc.xfer_data_rcvd_cnt + 1,
               total_xfer_data_cnt |-> svc.total_xfer_data_cnt + 1,
               checksum |-> Append(svc.checksum, v)]
  BY <1>2, <1>4 DEF States
<1>11. svc' \in States
  <2> DEFINE c == Append(svc.checksum, v)
             e == (svc.expected_xfer_block_sn + 1) % SnMod
             x == svc.xfer_data_rcvd_cnt + 1
             y == svc.total_xfer_data_cnt + 1
  <2>1. c \in Seq(Content) /\ e \in Nat /\ x \in Nat /\ y \in Nat
    <3>1. c \in Seq(Content) /\ e \in Nat
      BY <1>8, <1>9
    <3>2. \A p \in Nat : p + 1 \in Nat
      OBVIOUS
    <3>3. x \in Nat /\ y \in Nat
      BY <1>7, <3>2
    <3>4. QED
      BY <3>1, <3>3
  <2>2. svc' = [session |-> svc.session, unlocked |-> svc.unlocked, seed |-> svc.seed,
                reset_req |-> svc.reset_req, flash_prog_state |-> svc.flash_prog_state,
                download_req_addr |-> svc.download_req_addr,
                download_req_size |-> svc.download_req_size,
                encrypt_flag |-> svc.encrypt_flag, expected_xfer_block_sn |-> e,
                xfer_data_rcvd_cnt |-> x, total_xfer_data_cnt |-> y, checksum |-> c]
    BY <1>10
  <2> HIDE DEF c, e, x, y
  <2>3. QED
    BY <1>2, <2>1, <2>2 DEF States
<1>12. flash' \in [Cells -> Content]
  BY <1>2, <1>3
<1>13. Len(svc.checksum) = n /\ StillThere(n, flash, svc.checksum)
  BY DEF Counted
<1>14. n + 1 = At(i, k)
  <2>1. Start(i) \in Nat
    BY FlatSeq
  <2>2. QED
    BY <2>1 DEF At
<1>15. StillThere(n + 1, flash', Append(svc.checksum, v))
  <2> HIDE DEF k, a
  <2> DEFINE g == flash'
             s == svc.checksum
  <2>1. g = [flash EXCEPT ![UnitAddr(i, k)] = v] /\ UnitAddr(i, k) \in Cells
    BY <1>3, <1>5 DEF a
  <2>2. s \in Seq(Content) /\ Len(s) + 1 = At(i, k) /\ StillThere(Len(s), flash, s)
    BY <1>7, <1>13, <1>14
  <2>3. Len(s) = n
    BY <1>13
  <2> HIDE DEF g, s
  <2>4. StillThere(Len(s) + 1, g, Append(s, v))
    BY <1>1, <1>2, <1>6, <2>1, <2>2, OneMore
  <2>5. QED
    BY <2>3, <2>4 DEF g, s
<1>16. Counted(n + 1, svc', flash')
  BY <1>7, <1>10, <1>13, <1>15 DEF Counted
<1>17. InSegment(i, m + 1, svc')
  BY <1>10 DEF InSegment
<1>18. \E sid, nrc, val : Send(sid, nrc, val)
  BY DEF TakeUnit
<1>19. QED
  BY <1>11, <1>12, <1>16, <1>17, <1>18, Sent

LEMMA XferDoes ==
  ASSUME DeviceSane, tx = <<>>, EraseOver,
         NEW i \in 1 .. Len(File), NEW m \in Nat, NEW n \in Nat,
         m < Len(File[i].data), InSegment(i, m, svc),
         n = Start(i) + m, Counted(n, svc, flash),
         NEW sn, NEW b, b.val \in Data, XferData(sn, b)
  PROVE  /\ DeviceSane' /\ EraseOver'
         /\ \E r : tx' = <<r>> /\ (r.nrc = 0 => /\ Counted(n + 1, svc', flash')
                                                /\ InSegment(i, m + 1, svc'))
<1>1. UNCHANGED <<ers, erase, pc, csum>> /\ svc.session = 2
  BY ServedInTwo DEF XferData, taskVars
<1>2. EraseOver'
  BY <1>1 DEF EraseOver
<1>3. Decrypt(b) \in Content
  BY BootServerAssumption DEF Decrypt, Content
<1>4. flash \in [Cells -> Content] /\ svc \in States /\ Damaged \in Content
  BY DEF DeviceSane, Content
<1>5. CASE UNCHANGED <<svc, flash>> /\ Reject("xfer", {SequenceError})
  <2>1. 0 \notin {SequenceError}
    BY DEF SequenceError
  <2>2. \E r : tx' = <<r>> /\ r.nrc # 0
    BY <1>5, <2>1, Refused
  <2>3. QED
    BY <1>1, <1>2, <1>4, <1>5, <2>2, OnlySvc
<1>6. CASE flash_write_succeeds(NextAddr, Decrypt(b)) /\ TakeUnit(b)
  <2>1. PICK w \in Content : flash' = [flash EXCEPT ![NextAddr] = w]
    <3>1. NextAddr \in Cells
      BY <1>1, NextUnit, UnitAddrIs
    <3>2. CASE WriteDone(NextAddr, Decrypt(b))
      BY <1>3, <3>2 DEF WriteDone
    <3>3. CASE WriteLost(NextAddr)
      <4>1. flash' = [flash EXCEPT ![NextAddr] = flash[NextAddr]]
        BY <1>4, <3>1, <3>3 DEF WriteLost
      <4>2. flash[NextAddr] \in Content
        BY <1>4, <3>1
      <4>3. QED
        BY <4>1, <4>2
    <3>4. QED
      BY <1>6, <3>2, <3>3 DEF flash_write_succeeds
  <2>2. /\ flash' \in [Cells -> Content] /\ svc' \in States
        /\ Counted(n + 1, svc', flash') /\ InSegment(i, m + 1, svc')
        /\ \E r : tx' = <<r>>
    BY <1>1, <1>6, <2>1, TakeDoes
  <2>3. DeviceSane'
    BY <1>1, <2>2 DEF DeviceSane
  <2>4. QED
    BY <1>2, <2>2, <2>3
<1>7. CASE flash_write_fails(NextAddr) /\ Reject("xfer", {ProgrammingFailure}) /\ UNCHANGED svc
  <2>1. 0 \notin {ProgrammingFailure}
    BY DEF ProgrammingFailure
  <2>2. \E r : tx' = <<r>> /\ r.nrc # 0
    BY <1>7, <2>1, Refused
  <2>3. flash' \in [Cells -> Content]
    BY <1>4, <1>7 DEF flash_write_fails, WriteRefused, WriteFailed
  <2>4. DeviceSane'
    BY <1>1, <1>7, <2>3 DEF DeviceSane
  <2>5. QED
    BY <1>2, <2>2, <2>4
<1>8. QED
  BY <1>5, <1>6, <1>7 DEF XferData

\* The flag is written when all that was read back is the file, or its write
\* is lost.
Passed == csum' = [state |-> 2, result |-> 1] /\ Transferred /\ Served("routine")

LEMMA ChecksumDoes ==
  ASSUME DeviceSane, tx = <<>>, EraseOver, Counted(Len(FileSum), svc, flash),
         NEW sum, Matches(sum), ChecksumStart(sum)
  PROVE  /\ DeviceSane' /\ EraseOver'
         /\ AppFlagValid' => AppFlagValid \/ FileInFlash'
         /\ \E r : /\ tx' = <<r>>
                   /\ r.nrc = 0 /\ csum'.result = 1 =>
                        FileInFlash' /\ (AppFlagValid' \/ Passed)
<1>1. UNCHANGED <<svc, ers, erase, pc>> /\ svc.session = 2 /\ Served("routine")
  BY ServedInTwo DEF ChecksumStart, taskVars
<1>2. EraseOver'
  BY <1>1 DEF EraseOver
<1>3. flash \in [Cells -> Content] /\ Damaged \in Content /\ AppFlag \in Content
      /\ csum \in [state : {0, 2}, result : 0 .. 2]
  BY BootServerAssumption DEF DeviceSane, Content
<1>4. CASE UNCHANGED <<csum, flash>> /\ Reject("routine", {ConditionsNotCorrect})
  <2>1. 0 \notin {ConditionsNotCorrect}
    BY DEF ConditionsNotCorrect
  <2>2. \E r : tx' = <<r>> /\ r.nrc # 0
    BY <1>4, <2>1, Refused
  <2>3. DeviceSane'
    BY <1>1, <1>4 DEF DeviceSane
  <2>4. QED
    BY <1>2, <1>4, <2>2, <2>3 DEF AppFlagValid
<1>5. CASE /\ csum' = [state |-> 2, result |-> 0] /\ UNCHANGED flash
           /\ Send("routine", 0, <<"start_checksum">>)
  <2>1. csum' \in [state : {0, 2}, result : 0 .. 2] /\ csum'.result # 1
    BY <1>5
  <2>2. DeviceSane'
    BY <1>1, <1>5, <2>1 DEF DeviceSane
  <2>3. QED
    BY <1>2, <1>5, <2>1, <2>2, Sent DEF AppFlagValid
<1>6. CASE /\ Transferred /\ sum = svc.checksum /\ flash_write_succeeds(FlagAddr, AppFlag)
           /\ csum' = [state |-> 2, result |-> 1]
           /\ Send("routine", 0, <<"start_checksum">>)
  <2>1. FlagAddr \in Cells
    BY BootServerAssumption
  <2>2. flash' = [flash EXCEPT ![FlagAddr] = AppFlag] \/ flash' = flash
    BY <1>6 DEF flash_write_succeeds, WriteDone, WriteLost
  <2>3. /\ flash' \in [Cells -> Content]
        /\ \A a \in Cells \ {FlagAddr} : flash'[a] = flash[a]
    BY <1>3, <2>1, <2>2
  <2>4. DeviceSane'
    <3>1. csum' \in [state : {0, 2}, result : 0 .. 2]
      BY <1>6
    <3>2. QED
      BY <1>1, <2>3, <3>1 DEF DeviceSane
  <2>5. FileInFlash'
    <3>1. Len(sum) = Len(FileSum) /\ StillThere(Len(FileSum), flash, sum)
      BY <1>1, <1>6 DEF Counted
    <3>2. ASSUME NEW i \in 1 .. Len(File), NEW k \in 1 .. Len(File[i].data)
          PROVE  flash'[UnitAddr(i, k)] = File[i].data[k]
      <4>1. UnitAddr(i, k) \in Cells /\ flash[UnitAddr(i, k)] = File[i].data[k]
        BY <3>1, AllThere
      <4>2. UnitAddr(i, k) # FlagAddr
        BY UnitAddrIs
      <4>3. QED
        BY <2>3, <4>1, <4>2
    <3>3. QED
      BY <3>2, FileIs DEF FileInFlash, UnitAddr
  <2>6. Passed
    BY <1>1, <1>6 DEF Passed
  <2>7. QED
    BY <1>2, <1>6, <2>4, <2>5, <2>6, Sent
<1>7. CASE /\ flash_write_fails(FlagAddr) /\ csum' = [state |-> 2, result |-> 2]
           /\ Send("routine", 0, <<"start_checksum">>)
  <2>1. flash' \in [Cells -> Content]
    BY <1>3, <1>7 DEF flash_write_fails, WriteRefused, WriteFailed
  <2>2. csum' \in [state : {0, 2}, result : 0 .. 2] /\ csum'.result # 1
    BY <1>7
  <2>3. DeviceSane'
    BY <1>1, <2>1, <2>2 DEF DeviceSane
  <2>4. AppFlagValid' => AppFlagValid
    <3>1. CASE WriteRefused(FlagAddr)
      BY <3>1 DEF WriteRefused, AppFlagValid
    <3>2. CASE WriteFailed(FlagAddr)
      <4>1. flash'[FlagAddr] = Damaged /\ AppFlag # Damaged
        BY <1>3, <3>2, BootServerAssumption DEF WriteFailed
      <4>2. QED
        BY <4>1 DEF AppFlagValid
    <3>3. QED
      BY <1>7, <3>1, <3>2 DEF flash_write_fails
  <2>5. QED
    BY <1>2, <1>7, <2>2, <2>3, <2>4, Sent
<1>8. QED
  BY <1>4, <1>5, <1>6, <1>7 DEF ChecksumStart

-----------------------------------------------------------------------------
(* Requests and replies.                                                   *)

LEMMA AskedIs ==
  /\ host.step = "session"    => Asked = Message("session_ctrl", <<>>, 2)
  /\ host.step = "seed"       => Asked = Message("security", <<"seed">>, 0)
  /\ host.step = "key"        => Asked = Message("security", <<"key">>, KeyFor(host.seed, 2))
  /\ host.step = "header"     => Asked = Message("write_id", <<>>, FileHeader)
  /\ host.step = "erase"      => Asked = Message("routine", <<"start_erase">>, EraseRange)
  /\ host.step = "erase_poll" => Asked = Message("routine", <<"erase_result">>, 0)
  /\ host.step = "download"   => Asked = Message("download", <<>>, <<Segment.addr, Len(Segment.data)>>)
  /\ host.step = "xfer"       => Asked = Message("xfer", <<host.sn>>, Block)
  /\ host.step = "exit"       => Asked = Message("exit", <<>>, 0)
  /\ host.step = "check"      => Asked = Message("routine", <<"start_checksum">>, host.crc)
  /\ host.step = "check_poll" => Asked = Message("routine", <<"checksum_result">>, 0)
  /\ host.step = "reset"      => Asked = Message("reset", <<>>, 0)
BY DEF Asked

\* The one handler that takes a message, but for the dispatcher's refusal.
LEMMA ServeIs ==
  ASSUME NEW sid, NEW sub, NEW arg, Serve(Message(sid, sub, arg))
  PROVE  \/ Refuse(sid)
         \/ sid = "session_ctrl" /\ SessionCtrl(arg)
         \/ sid = "security" /\ sub = <<"seed">> /\ RequestSeed
         \/ sid = "security" /\ sub = <<"key">> /\ SendKey(arg)
         \/ sid = "write_id" /\ WriteHeader(arg)
         \/ sid = "routine" /\ sub = <<"start_erase">> /\ EraseStart(arg[1], arg[2])
         \/ sid = "routine" /\ sub = <<"erase_result">> /\ EraseResult
         \/ sid = "download" /\ DownloadReq(arg[1], arg[2], Encrypted)
         \/ sid = "xfer" /\ XferData(sub[1], arg)
         \/ sid = "exit" /\ ExitXfer
         \/ sid = "routine" /\ sub = <<"start_checksum">> /\ ChecksumStart(arg)
         \/ sid = "routine" /\ sub = <<"checksum_result">> /\ ChecksumResult
         \/ sid = "reset" /\ RequestReset
<1> DEFINE m == Message(sid, sub, arg)
<1>1. m.sid = sid /\ m.sub = sub /\ m.arg = arg
  BY DEF Message
<1>2. \/ Refuse(m.sid)
      \/ m.sid = "session_ctrl" /\ SessionCtrl(m.arg)
      \/ m.sid = "security" /\ m.sub = <<"seed">> /\ RequestSeed
      \/ m.sid = "security" /\ m.sub = <<"key">> /\ SendKey(m.arg)
      \/ m.sid = "write_id" /\ WriteHeader(m.arg)
      \/ m.sid = "routine" /\ m.sub = <<"start_erase">> /\ EraseStart(m.arg[1], m.arg[2])
      \/ m.sid = "routine" /\ m.sub = <<"erase_result">> /\ EraseResult
      \/ m.sid = "download" /\ DownloadReq(m.arg[1], m.arg[2], Encrypted)
      \/ m.sid = "xfer" /\ XferData(m.sub[1], m.arg)
      \/ m.sid = "exit" /\ ExitXfer
      \/ m.sid = "routine" /\ m.sub = <<"start_checksum">> /\ ChecksumStart(m.arg)
      \/ m.sid = "routine" /\ m.sub = <<"checksum_result">> /\ ChecksumResult
      \/ m.sid = "reset" /\ RequestReset
  BY Zenon DEF Serve, Asks
<1> HIDE DEF m
<1>3. QED
  BY <1>1, <1>2

LEMMA ServeAsked ==
  ASSUME Serve(Asked), host.step \in Steps, ~(\E sid : Refuse(sid))
  PROVE  /\ host.step = "session"    => SessionCtrl(2)
         /\ host.step = "seed"       => RequestSeed
         /\ host.step = "key"        => SendKey(KeyFor(host.seed, 2))
         /\ host.step = "header"     => WriteHeader(FileHeader)
         /\ host.step = "erase"      => EraseStart(EraseRange[1], EraseRange[2])
         /\ host.step = "erase_poll" => EraseResult
         /\ host.step = "download"   => DownloadReq(Segment.addr, Len(Segment.data), Encrypted)
         /\ host.step = "xfer"       => XferData(host.sn, Block)
         /\ host.step = "exit"       => ExitXfer
         /\ host.step = "check"      => ChecksumStart(host.crc)
         /\ host.step = "check_poll" => ChecksumResult
         /\ host.step = "reset"      => RequestReset
<1>1. CASE host.step = "session"
  BY <1>1, AskedIs, ServeIs
<1>2. CASE host.step = "seed"
  BY <1>2, AskedIs, ServeIs
<1>3. CASE host.step = "key"
  BY <1>3, AskedIs, ServeIs
<1>4. CASE host.step = "header"
  BY <1>4, AskedIs, ServeIs
<1>5. CASE host.step = "erase"
  BY <1>5, AskedIs, ServeIs
<1>6. CASE host.step = "erase_poll"
  BY <1>6, AskedIs, ServeIs
<1>7. CASE host.step = "download"
  BY <1>7, AskedIs, ServeIs
<1>8. CASE host.step = "xfer"
  BY <1>8, AskedIs, ServeIs
<1>9. CASE host.step = "exit"
  BY <1>9, AskedIs, ServeIs
<1>10. CASE host.step = "check"
  BY <1>10, AskedIs, ServeIs
<1>11. CASE host.step = "check_poll"
  BY <1>11, AskedIs, ServeIs
<1>12. CASE host.step = "reset"
  BY <1>12, AskedIs, ServeIs
<1>13. QED
  BY <1>1, <1>2, <1>3, <1>4, <1>5, <1>6, <1>7, <1>8, <1>9, <1>10, <1>11, <1>12 DEF Steps

\* What the script's variables are, without its constraints on steps.
LEMMA HostIs ==
  ASSUME HostSane
  PROVE  /\ host.step \in Steps \cup Ends \cup {"enter"} /\ host.waiting \in BOOLEAN
         /\ host.seed \in Seeds /\ host.seg \in 1 .. Len(File)
         /\ host.sent \in Nat /\ host.sn \in Nat /\ host.pos \in Nat /\ host.crc \in Seq(Data)
BY DEF HostSane, Hosts

LEMMA NoAnswer ==
  ASSUME NEW r, r.nrc # 0
  PROVE  Replied(r)'
BY DEF Replied, Answers

LEMMA HostStays ==
  ASSUME HostSane, UNCHANGED host
  PROVE  HostSane'
BY DEF HostSane

LEMMA ReplyOnWay ==
  ASSUME host.waiting, UNCHANGED host, rx' = <<>>, NEW r, tx' = <<r>>, Replied(r)'
  PROVE  Channel'
<1>1. Len(tx') = 1 /\ tx'[1] = r
  OBVIOUS
<1>2. QED
  BY <1>1 DEF Channel

\* Every request is answered by what the script expects of the device then.
LEMMA DeliverDoes ==
  ASSUME DeviceSane, HostSane, Channel, Deliver, Remembered, NoteMark(ChecksumPasses)
  PROVE  DeviceSane' /\ HostSane' /\ Channel'
<1>1. /\ host.waiting /\ rx = <<Asked>> /\ tx = <<>> /\ host.step \in Steps
      /\ Sync(host.step, host.seg, host.sent, host.pos)
  BY DEF Deliver, Channel, HostSane
<1>2. Serve(Asked) /\ rx' = <<>> /\ host' = host
  <2>1. Head(rx) = Asked /\ Tail(rx) = <<>>
    BY <1>1
  <2>2. QED
    BY <2>1 DEF Deliver
<1>3. HostSane'
  BY <1>2, HostStays
<1> SUFFICES DeviceSane' /\ \E r : tx' = <<r>> /\ Replied(r)'
  BY <1>1, <1>2, <1>3, ReplyOnWay
<1>4. CASE \E sid : Refuse(sid)
  <2>1. Inert /\ \E r : tx' = <<r>> /\ r.nrc # 0
    BY <1>1, <1>4, RefuseDoes
  <2>2. QED
    BY <2>1, AtRest, NoAnswer
<1>5. CASE ~(\E sid : Refuse(sid))
  <2>1. CASE host.step = "session"
    <3>1. SessionCtrl(2)
      BY <1>1, <1>2, <1>5, <2>1, ServeAsked
    <3>2. DeviceSane' /\ \E r : tx' = <<r>> /\ NothingYet'
      BY <1>1, <3>1, SessionDoes
    <3>3. QED
      BY <1>2, <2>1, <3>2 DEF Replied, Early, Loading
  <2>2. CASE host.step = "seed"
    <3>1. RequestSeed
      BY <1>1, <1>2, <1>5, <2>2, ServeAsked
    <3>2. DeviceSane' /\ NothingYet' /\ \E r : tx' = <<r>> /\ r.val[2] \in Seeds
      BY <1>1, <2>2, <3>1, SeedDoes DEF Sync, Early
    <3>3. QED
      BY <1>2, <2>2, <3>2 DEF Replied, Early, Loading
  <2>3. CASE host.step = "key"
    <3>1. SendKey(KeyFor(host.seed, 2))
      BY <1>1, <1>2, <1>5, <2>3, ServeAsked
    <3>2. DeviceSane' /\ NothingYet' /\ \E r : tx' = <<r>>
      BY <1>1, <2>3, <3>1, KeyDoes DEF Sync, Early
    <3>3. QED
      BY <1>2, <2>3, <3>2 DEF Replied, Early, Loading
  <2>4. CASE host.step = "header"
    <3>1. WriteHeader(FileHeader)
      BY <1>1, <1>2, <1>5, <2>4, ServeAsked
    <3>2. DeviceSane' /\ NothingYet' /\ \E r : tx' = <<r>>
      BY <1>1, <2>4, <3>1, HeaderDoes DEF Sync, Early
    <3>3. QED
      BY <1>2, <2>4, <3>2 DEF Replied, Early, Loading
  <2>5. CASE host.step = "erase"
    <3>1. EraseStart(EraseRange[1], EraseRange[2])
      BY <1>1, <1>2, <1>5, <2>5, ServeAsked
    <3>2. DeviceSane' /\ NothingYet' /\ \E r : tx' = <<r>>
      BY <1>1, <2>5, <3>1, EraseDoes DEF Sync, Early
    <3>3. QED
      BY <1>2, <2>5, <3>2 DEF Replied, Early, Loading
  <2>6. CASE host.step = "erase_poll"
    <3>1. EraseResult
      BY <1>1, <1>2, <1>5, <2>6, ServeAsked
    <3>2. /\ DeviceSane' /\ UNCHANGED svc
          /\ \E r : tx' = <<r>> /\ (r.nrc = 0 /\ r.val[2] = 1 => EraseOver')
      BY <1>1, <3>1, EraseResultDoes
    <3>3. NothingYet'
      BY <1>1, <2>6, <3>2 DEF Sync, Early, NothingYet
    <3>4. QED
      BY <1>2, <2>6, <3>2, <3>3 DEF Replied, Answers, Early, Loading
  <2>7. CASE host.step = "download"
    <3>1. DownloadReq(Segment.addr, Len(Segment.data), Encrypted)
      BY <1>1, <1>2, <1>5, <2>7, ServeAsked
    <3>2. Segment.addr \in Nat /\ Len(Segment.data) \in Nat /\ Encrypted \in BOOLEAN
      BY HostIs, FileIs, BootSystemAssumption DEF Segment
    <3>3. /\ DeviceSane' /\ (EraseOver => EraseOver') /\ UNCHANGED flash
          /\ svc'.session = svc.session /\ svc'.checksum = svc.checksum
          /\ \E r : tx' = <<r>> /\ (r.nrc = 0 => /\ svc'.download_req_addr = Segment.addr
                                                 /\ svc'.xfer_data_rcvd_cnt = 0)
      BY <1>1, <3>1, <3>2, DownloadDoes
    <3>4. EraseOver' /\ Counted(host.pos, svc', flash')
      BY <1>1, <2>7, <3>3 DEF Sync, Loading, Counted
    <3>5. PICK r : tx' = <<r>> /\ (r.nrc = 0 => InSegment(host.seg, 0, svc'))
      BY <3>3 DEF InSegment, Segment
    <3>6. QED
      BY <1>2, <2>7, <3>3, <3>4, <3>5 DEF Replied, Answers, Early, Loading
  <2>8. CASE host.step = "xfer"
    <3>1. XferData(host.sn, Block)
      BY <1>1, <1>2, <1>5, <2>8, ServeAsked
    <3>2. /\ EraseOver /\ InSegment(host.seg, host.sent, svc)
          /\ Counted(host.pos, svc, flash)
          /\ host.pos = Start(host.seg) + host.sent
          /\ host.sent < Len(File[host.seg].data)
      BY <1>1, <2>8 DEF Sync, Loading, HostSane, StepSane
    <3>3. Block.val \in Data
      <4>1. host.sent + 1 \in 1 .. Len(File[host.seg].data)
        BY <3>2, HostIs, FileIs
      <4>2. QED
        BY <4>1, UnitAddrIs, HostIs DEF Block, Segment
    <3>4. /\ DeviceSane' /\ EraseOver'
          /\ \E r : tx' = <<r>> /\ (r.nrc = 0 => /\ Counted(host.pos + 1, svc', flash')
                                                 /\ InSegment(host.seg, host.sent + 1, svc'))
      BY <1>1, <3>1, <3>2, <3>3, HostIs, XferDoes
    <3>5. QED
      BY <1>2, <2>8, <3>4 DEF Replied, Answers, Early, Loading
  <2>9. CASE host.step = "exit"
    <3>1. ExitXfer
      BY <1>1, <1>2, <1>5, <2>9, ServeAsked
    <3>2. /\ DeviceSane' /\ (EraseOver => EraseOver') /\ UNCHANGED flash
          /\ svc'.session = svc.session /\ svc'.checksum = svc.checksum
          /\ \E r : tx' = <<r>>
      BY <1>1, <3>1, ExitDoes
    <3>3. EraseOver' /\ Counted(host.pos, svc', flash')
      BY <1>1, <2>9, <3>2 DEF Sync, Loading, Counted
    <3>4. QED
      BY <1>2, <2>9, <3>2, <3>3 DEF Replied, Early, Loading
  <2>10. CASE host.step = "check"
    <3>1. ChecksumStart(host.crc)
      BY <1>1, <1>2, <1>5, <2>10, ServeAsked
    <3>2. EraseOver /\ Counted(Len(FileSum), svc, flash) /\ Matches(host.crc)
      BY <1>1, <2>10 DEF Sync, Loading, HostSane, StepSane
    <3>3. /\ DeviceSane' /\ EraseOver'
          /\ \E r : /\ tx' = <<r>>
                    /\ r.nrc = 0 /\ csum'.result = 1 =>
                         FileInFlash' /\ (AppFlagValid' \/ Passed)
      BY <1>1, <3>1, <3>2, ChecksumDoes
    <3>4. Passed => ChecksumPasses
      <4>1. Head(rx) = Asked
        BY <1>1
      <4>2. Asked.sid = "routine" /\ Asked.sub = <<"start_checksum">>
        BY <2>10, AskedIs DEF Message
      <4>3. QED
        BY <4>1, <4>2 DEF Passed, ChecksumPasses, Asks
    <3>5. FileInFlash' /\ (AppFlagValid' \/ Passed) => InPlace'
      BY <3>4 DEF NoteMark, InPlace
    <3>6. PICK r : tx' = <<r>> /\ (r.nrc = 0 /\ csum'.result = 1 => InPlace')
      BY <3>3, <3>5
    <3>7. QED
      BY <1>2, <2>10, <3>3, <3>6 DEF Replied, Answers, Early, Loading
  <2>11. CASE host.step = "check_poll"
    <3>1. ChecksumResult
      BY <1>1, <1>2, <1>5, <2>11, ServeAsked
    <3>2. /\ DeviceSane' /\ (EraseOver => EraseOver') /\ UNCHANGED flash
          /\ csum'.result = csum.result
          /\ \E r : tx' = <<r>> /\ (r.nrc = 0 => r.val[2] = csum.result)
      BY <1>1, <3>1, ChecksumResultDoes
    <3>3. EraseOver' /\ (csum.result = 1 => InPlace')
      BY <1>1, <2>11, <3>2 DEF Sync, Closing, Remembered
    <3>4. QED
      BY <1>2, <2>11, <3>2, <3>3 DEF Replied, Answers, Early, Loading
  <2>12. CASE host.step = "reset"
    <3>1. RequestReset
      BY <1>1, <1>2, <1>5, <2>12, ServeAsked
    <3>2. /\ DeviceSane' /\ (EraseOver => EraseOver') /\ UNCHANGED flash
          /\ \E r : tx' = <<r>>
      BY <1>1, <3>1, ResetDoes
    <3>3. EraseOver' /\ InPlace'
      BY <1>1, <2>12, <3>2 DEF Sync, Closing, Remembered
    <3>4. QED
      BY <1>2, <2>12, <3>2, <3>3 DEF Replied, Early, Loading
  <2>13. QED
    BY <1>1, <2>1, <2>2, <2>3, <2>4, <2>5, <2>6, <2>7, <2>8, <2>9, <2>10, <2>11, <2>12 DEF Steps
<1>6. QED
  BY <1>4, <1>5

-----------------------------------------------------------------------------
(* The steps of the system.                                                *)

LEMMA FreshHost ==
  /\ HostInit \in Hosts /\ HostInit.step = "enter" /\ ~HostInit.waiting
  /\ StepSane(HostInit.step, HostInit.seg, HostInit.sent, HostInit.pos)
  /\ Matches(HostInit.crc) /\ HostInit.pos = 0 /\ (~Encrypted => Len(HostInit.crc) = 0)
<1> DEFINE c == IF Encrypted THEN FileSum ELSE <<>>
<1>1. FileSum \in Seq(Data)
  BY FlatIs, FlatSeq, FileIs
<1>2. Matches(<<>>) /\ Matches(FileSum)
  BY Places DEF Matches
<1>3. c \in Seq(Data) /\ Matches(c) /\ (~Encrypted => Len(c) = 0)
  BY <1>1, <1>2
<1>4. HostInit = [step |-> "enter", waiting |-> FALSE, seed |-> 0, seg |-> 1, sent |-> 0,
                  sn |-> 0, pos |-> 0, crc |-> c]
  BY DEF HostInit
<1> HIDE DEF c
<1>5. 0 \in Seeds /\ 1 \in 1 .. Len(File)
  BY BootServerAssumption, FileIs
<1>6. QED
  BY <1>3, <1>4, <1>5 DEF Hosts, StepSane, Early

LEMMA InitGood ==
  ASSUME SysInit
  PROVE  Good
<1>1. flash \in [Cells -> Content] /\ ers = {}
  <2>1. /\ Erased \in Content /\ BootCode \in Content /\ AppFlag \in Content
        /\ \A a \in DOMAIN OldImage : OldImage[a] \in Content
    BY BootServerAssumption, BootSystemAssumption DEF Content
  <2>2. CASE FlashInit
    BY <2>1, <2>2 DEF FlashInit
  <2>3. CASE Installed
    BY <2>1, <2>3 DEF Installed
  <2>4. QED
    BY <2>2, <2>3 DEF SysInit
<1>2. DeviceSane
  <2>1. svc \in States
    BY BootServerAssumption DEF SysInit, TasksInit, ServiceInit, States
  <2>2. erase \in Erases /\ erase.state = 0 /\ erase.req = 0 /\ pc = "poll"
    BY DEF SysInit, TasksInit, EraseInit, Erases
  <2>3. csum \in [state : {0, 2}, result : 0 .. 2]
    BY DEF SysInit, TasksInit, CsumInit
  <2>4. QED
    BY <1>1, <2>1, <2>2, <2>3 DEF DeviceSane
<1>4. HostSane
  BY FreshHost DEF SysInit, HostSane
<1>5. Channel
  BY DEF SysInit, TasksInit, HostInit, Channel, Sync, Early, Loading, Closing
<1>6. QED
  BY <1>2, <1>4, <1>5 DEF SysInit, Good

\* The device does something on its own, and requests may be lost.
LEMMA CalmStep ==
  ASSUME HostSane, Channel, DeviceSane' /\ Calm, Remembered, UNCHANGED <<host, tx>>,
         rx' = rx \/ rx' = <<>>
  PROVE  HostSane' /\ Channel'
<1>1. HostSane'
  BY HostStays
<1>2. /\ Sync(host.step, host.seg, host.sent, host.pos)
           => Sync(host.step, host.seg, host.sent, host.pos)'
      /\ \A r : Replied(r) => Replied(r)'
  BY CalmKeeps
<1>3. Asked' = Asked
  BY DEF Asked, Segment, Block
<1> SUFFICES Channel'
  BY <1>1
<1>4. CASE /\ rx = <<>> /\ tx = <<>>
           /\ ~host.waiting => Sync(host.step, host.seg, host.sent, host.pos)
  BY <1>2, <1>4 DEF Channel
<1>5. CASE /\ host.waiting /\ rx = <<Asked>> /\ tx = <<>>
           /\ Sync(host.step, host.seg, host.sent, host.pos)
  BY <1>2, <1>3, <1>5 DEF Channel
<1>6. CASE host.waiting /\ rx = <<>> /\ Len(tx) = 1 /\ tx = <<tx[1]>> /\ Replied(tx[1])
  BY <1>2, <1>6 DEF Channel
<1>7. QED
  BY <1>4, <1>5, <1>6 DEF Channel

LEMMA AloneGood ==
  ASSUME Good, Remembered, Alone
  PROVE  Good'
<1>1. DeviceSane /\ HostSane /\ Channel /\ late' = {} /\ UNCHANGED <<rx, host>>
  BY DEF Good, Alone, netVars
<1>2. CASE Silence
  <2>1. DeviceSane' /\ Calm /\ tx' = tx
    BY <1>1, <1>2, SilenceCalm DEF Silence
  <2>2. QED
    BY <1>1, <2>1, CalmStep DEF Good
<1>3. CASE EraseTask
  <2>1. DeviceSane' /\ Calm /\ tx' = tx
    BY <1>1, <1>3, TaskCalm
  <2>2. QED
    BY <1>1, <2>1, CalmStep DEF Good
<1>4. CASE AppAsks
  <2>1. UNCHANGED <<svc, erase, pc, csum, flash, ers, tx>>
    BY <1>4 DEF AppAsks, taskVars, flashVars
  <2>2. DeviceSane' /\ Calm
    BY <1>1, <2>1 DEF DeviceSane, Calm, EraseOver
  <2>3. QED
    BY <1>1, <2>1, <2>2, CalmStep DEF Good
<1>5. QED
  BY <1>2, <1>3, <1>4 DEF Alone

\* A restart loses what was on its way, or nothing.
LEMMA RestartLoses ==
  ASSUME Channel, Restart
  PROVE  rx' = rx \/ rx' = <<>>
<1>1. PICK n \in 0 .. Len(rx) : rx' = SubSeq(rx, n + 1, Len(rx))
  BY DEF Restart
<1>2. CASE rx = <<>>
  BY <1>1, <1>2
<1>3. CASE rx = <<Asked>>
  <2> DEFINE a == Asked
  <2>1. rx = <<a>>
    BY <1>3
  <2> HIDE DEF a
  <2>2. n = 0 \/ n = 1
    BY <1>1, <2>1
  <2>3. SubSeq(<<a>>, 1, 1) = <<a>> /\ SubSeq(<<a>>, 2, 1) = <<>> /\ Len(<<a>>) = 1
    <3>1. <<a>> \in Seq({a}) /\ Len(<<a>>) = 1
      OBVIOUS
    <3>2. SubSeq(<<a>>, 2, 1) = <<>>
      BY SubSeqEmpty
    <3>3. QED
      BY <3>1, <3>2, SubSeqFull
  <2>4. QED
    BY <1>1, <2>1, <2>2, <2>3
<1>4. QED
  BY <1>2, <1>3 DEF Channel

LEMMA RestartGood ==
  ASSUME Good, Remembered, Restart
  PROVE  Good'
<1>1. DeviceSane /\ HostSane /\ Channel /\ late' = {} /\ UNCHANGED host
  BY DEF Good, Restart
<1>2. PICK asked : StartUp(asked)
  BY DEF Restart, Reset, PowerLoss, AppResets
<1>3. DeviceSane' /\ Calm /\ tx' = tx
  BY <1>1, <1>2, StartUpCalm DEF StartUp
<1>4. rx' = rx \/ rx' = <<>>
  BY <1>1, RestartLoses
<1>5. QED
  BY <1>1, <1>3, <1>4, CalmStep DEF Good

LEMMA OneInChannel ==
  ASSUME Channel
  PROVE  /\ rx # <<>> => Tail(rx) = <<>>
         /\ tx # <<>> => host.waiting /\ rx = <<>> /\ Tail(tx) = <<>>
<1>1. \A x : <<x>> # <<>> /\ Tail(<<x>>) = <<>>
  OBVIOUS
<1>2. rx # <<>> => \E x : rx = <<x>>
  BY DEF Channel
<1>3. tx # <<>> => host.waiting /\ rx = <<>> /\ \E x : tx = <<x>>
  BY <1>1 DEF Channel
<1>4. QED
  BY <1>1, <1>2, <1>3

LEMMA IgnoredGood ==
  ASSUME Good, Remembered, Ignored
  PROVE  Good'
<1>1. DeviceSane /\ HostSane /\ Channel /\ late' = {} /\ UNCHANGED <<host, tx>> /\ rx # <<>>
      /\ rx' = Tail(rx) /\ Inert
  BY DEF Good, Ignored, vars, Inert, bootVars, taskVars, flashVars, hist
<1>2. DeviceSane' /\ Calm
  BY <1>1, AtRest
<1>3. rx' = <<>>
  BY <1>1, OneInChannel
<1>4. QED
  BY <1>1, <1>2, <1>3, CalmStep DEF Good

LEMMA LoseGood ==
  ASSUME Good, Remembered, Lose
  PROVE  Good'
<1>1. DeviceSane /\ HostSane /\ Channel /\ late' = {} /\ UNCHANGED host /\ Inert
  BY DEF Good, Lose
<1>2. DeviceSane' /\ Calm
  BY <1>1, AtRest
<1>3. CASE rx # <<>> /\ rx' = Tail(rx) /\ UNCHANGED tx
  <2>1. rx' = <<>>
    BY <1>1, <1>3, OneInChannel
  <2>2. QED
    BY <1>1, <1>2, <1>3, <2>1, CalmStep DEF Good
<1>4. CASE tx # <<>> /\ tx' = Tail(tx) /\ UNCHANGED rx
  <2>1. host.waiting /\ rx' = <<>> /\ tx' = <<>>
    BY <1>1, <1>4, OneInChannel
  <2>2. Channel'
    BY <1>1, <2>1 DEF Channel
  <2>3. QED
    BY <1>1, <1>2, <2>2, HostStays DEF Good
<1>5. QED
  BY <1>3, <1>4 DEF Lose

LEMMA InertKeeps ==
  ASSUME Inert, Remembered
  PROVE  /\ svc' = svc /\ csum' = csum /\ flash' = flash
         /\ NothingYet' = NothingYet /\ EraseOver' = EraseOver /\ (InPlace => InPlace')
BY DEF Inert, bootVars, taskVars, flashVars, hist, NothingYet, EraseOver, Remembered

LEMMA EnterGood ==
  ASSUME Good, Tool, EnterBoot
  PROVE  Good'
<1>1. /\ DeviceSane /\ HostSane /\ Channel /\ late' = {} /\ Inert /\ UNCHANGED <<rx, tx>>
      /\ host.step = "enter" /\ host' = [host EXCEPT !.step = "session"]
  BY DEF Good, Tool, EnterBoot
<1>2. DeviceSane'
  BY <1>1, AtRest
<1>3. ~host.waiting /\ rx' = <<>> /\ tx' = <<>>
  BY <1>1, HostIs DEF HostSane, Steps, Channel
<1>4. /\ host' \in Hosts /\ host'.step = "session" /\ host'.waiting = host.waiting
      /\ host'.seg = host.seg /\ host'.sent = host.sent /\ host'.pos = host.pos
      /\ host'.crc = host.crc
  BY <1>1 DEF HostSane, Hosts, Steps
<1>5. HostSane'
  BY <1>1, <1>3, <1>4 DEF HostSane, StepSane, Early
<1>6. Channel'
  BY <1>3, <1>4 DEF Channel, Sync, Early, Loading, Closing
<1>7. QED
  BY <1>1, <1>2, <1>5, <1>6 DEF Good

LEMMA AskGood ==
  ASSUME Good, Remembered, Tool, Ask
  PROVE  Good'
<1>1. /\ DeviceSane /\ HostSane /\ Channel /\ late' = {} /\ Inert /\ UNCHANGED tx
      /\ host.step \in Steps /\ ~host.waiting
  BY DEF Good, Tool, Ask
<1>2. DeviceSane'
  BY <1>1, AtRest
<1>3. /\ rx = <<>> /\ tx' = <<>> /\ Sync(host.step, host.seg, host.sent, host.pos)
  BY <1>1 DEF Channel
<1>4. rx' = <<Asked>>
  BY <1>3 DEF Ask
<1> DEFINE crc == IF host.step = "xfer" /\ ~Encrypted
                  THEN Append(host.crc, Block.val) ELSE host.crc
<1>5. host' = [step |-> host.step, waiting |-> TRUE, seed |-> host.seed, seg |-> host.seg,
               sent |-> host.sent, sn |-> host.sn, pos |-> host.pos, crc |-> crc]
  <2>1. host \in Hosts
    BY <1>1 DEF HostSane
  <2>2. host' = [host EXCEPT !.waiting = TRUE, !.crc = crc]
    BY DEF Ask
  <2> HIDE DEF crc
  <2>3. QED
    BY <2>1, <2>2 DEF Hosts
<1>6. /\ crc \in Seq(Data) /\ Matches(crc)
      /\ ~Encrypted => Len(crc) = IF host.step = "xfer" THEN host.pos + 1 ELSE host.pos
  <2>1. /\ host.crc \in Seq(Data) /\ Matches(host.crc)
        /\ ~Encrypted => Len(host.crc) = host.pos
    BY <1>1, HostIs DEF HostSane, Steps
  <2>2. CASE host.step = "xfer" /\ ~Encrypted
    <3>1. /\ host.pos = Start(host.seg) + host.sent /\ host.sent < Len(File[host.seg].data)
          /\ host.seg \in 1 .. Len(File) /\ host.sent \in Nat
      BY <1>1, <2>2, HostIs DEF HostSane, StepSane
    <3>2. host.sent + 1 \in 1 .. Len(File[host.seg].data)
      BY <3>1, FileIs
    <3>3. Len(host.crc) + 1 = At(host.seg, host.sent + 1)
      BY <2>1, <2>2, <3>1, FlatSeq DEF At
    <3>4. /\ crc = Append(host.crc, File[host.seg].data[host.sent + 1])
          /\ File[host.seg].data[host.sent + 1] \in Data
      BY <2>2, <3>1, <3>2, UnitAddrIs DEF Block, Segment
    <3>5. Matches(crc)
      BY <2>1, <3>1, <3>2, <3>3, <3>4, MoreMatches
    <3>6. crc \in Seq(Data) /\ Len(crc) = host.pos + 1
      <4> DEFINE v == File[host.seg].data[host.sent + 1]
      <4>1. v \in Data /\ crc = Append(host.crc, v) /\ Len(host.crc) = host.pos
        BY <2>1, <2>2, <3>4
      <4> HIDE DEF v, crc
      <4>2. QED
        BY <2>1, <4>1
    <3>7. QED
      BY <2>2, <3>5, <3>6
  <2>3. CASE ~(host.step = "xfer" /\ ~Encrypted)
    BY <2>1, <2>3
  <2>4. QED
    BY <2>2, <2>3
<1>7. host.step = "check" => crc = host.crc
  OBVIOUS
<1> HIDE DEF crc
<1>8. /\ host' \in Hosts /\ host'.step = host.step /\ host'.waiting
      /\ host'.seed = host.seed /\ host'.seg = host.seg /\ host'.sent = host.sent
      /\ host'.sn = host.sn /\ host'.pos = host.pos /\ host'.crc = crc
  BY <1>1, <1>5, <1>6, HostIs DEF Hosts
<1>9. HostSane'
  BY <1>1, <1>6, <1>8 DEF HostSane
<1>10. Asked' = Asked
  BY <1>7, <1>8 DEF Asked, Segment, Block
<1>11. Sync(host.step, host.seg, host.sent, host.pos)'
  BY <1>1, <1>3, <1>8, InertKeeps DEF Sync, Counted, InSegment
<1>12. Channel'
  BY <1>3, <1>4, <1>8, <1>10, <1>11 DEF Channel
<1>13. QED
  BY <1>1, <1>2, <1>9, <1>12 DEF Good

\* The script took a reply, and is at the step that follows.
LEMMA Heard ==
  ASSUME Good, Remembered, Inert, rx' = <<>>, tx' = <<>>, late' = {},
         NEW h \in Hosts, host' = h, h.waiting = FALSE, h.crc = host.crc,
         StepSane(h.step, h.seg, h.sent, h.pos), Sync(h.step, h.seg, h.sent, h.pos),
         ~Encrypted /\ h.step # "failed" => Len(host.crc) = h.pos
  PROVE  Good'
<1>1. DeviceSane /\ HostSane
  BY DEF Good
<1>2. DeviceSane'
  BY <1>1, AtRest
<1>3. HostSane'
  BY <1>1 DEF HostSane
<1>4. Sync(host.step, host.seg, host.sent, host.pos)'
  BY InertKeeps DEF Sync, Counted, InSegment
<1>5. Channel'
  BY <1>4 DEF Channel
<1>6. QED
  BY <1>2, <1>3, <1>5 DEF Good

\* It only moved on.
LEMMA Moved ==
  ASSUME Good, Remembered, Inert, rx' = <<>>, tx' = <<>>, late' = {}, host.waiting,
         NEW from, NEW to, Move(from, to),
         to \in (Steps \ {"xfer"}) \cup Ends, from # "xfer" \/ to = "failed",
         StepSane(to, host.seg, host.sent, host.pos),
         Sync(to, host.seg, host.sent, host.pos)
  PROVE  Good'
<1> DEFINE h == [step |-> to, waiting |-> FALSE, seed |-> host.seed, seg |-> host.seg,
                 sent |-> host.sent, sn |-> host.sn, pos |-> host.pos, crc |-> host.crc]
<1>1. HostSane /\ host.step = from /\ host' = [host EXCEPT !.step = to, !.waiting = FALSE]
  BY DEF Good, Move
<1>2. host' = h
  BY <1>1 DEF HostSane, Hosts
<1>3. h \in Hosts
  BY <1>1, HostIs DEF Hosts
<1>4. ~Encrypted /\ to # "failed" => Len(host.crc) = host.pos
  BY <1>1 DEF HostSane, Steps
<1>5. /\ h.step = to /\ h.waiting = FALSE /\ h.seg = host.seg /\ h.sent = host.sent
      /\ h.pos = host.pos /\ h.crc = host.crc
  OBVIOUS
<1> HIDE DEF h
<1>6. QED
  BY <1>2, <1>3, <1>4, <1>5, Heard

LEMMA Failing ==
  StepSane("failed", host.seg, host.sent, host.pos) /\ Sync("failed", host.seg, host.sent, host.pos)
BY DEF StepSane, Sync, Early, Loading, Closing

\* Before anything was sent, nothing has to be in the flash.
LEMMA NothingSent ==
  ASSUME NothingYet
  PROVE  Counted(0, svc, flash)
<1>1. \A i \in 1 .. Len(File) : \A k \in 1 .. Len(File[i].data) : ~(At(i, k) <= 0)
  BY Places
<1>2. StillThere(0, flash, svc.checksum)
  BY <1>1 DEF StillThere
<1>3. QED
  BY <1>2 DEF NothingYet, Counted

LEMMA SeedTaken ==
  ASSUME Good, Remembered, Inert, rx' = <<>>, tx' = <<>>, late' = {}, host.waiting, NothingYet,
         NEW seed \in Seeds, TakeSeed(seed)
  PROVE  Good'
<1> DEFINE h == [step |-> "key", waiting |-> FALSE, seed |-> seed, seg |-> host.seg,
                 sent |-> host.sent, sn |-> host.sn, pos |-> host.pos, crc |-> host.crc]
<1>1. /\ HostSane /\ host.step = "seed"
      /\ host' = [host EXCEPT !.step = "key", !.waiting = FALSE, !.seed = seed]
  BY DEF Good, TakeSeed
<1>2. host' = h
  BY <1>1 DEF HostSane, Hosts
<1>3. h \in Hosts
  BY <1>1, HostIs DEF Hosts, Steps
<1>4. ~Encrypted => Len(host.crc) = host.pos
  BY <1>1 DEF HostSane
<1>5. /\ h.step = "key" /\ h.waiting = FALSE /\ h.seg = host.seg /\ h.sent = host.sent
      /\ h.pos = host.pos /\ h.crc = host.crc
  OBVIOUS
<1>6. StepSane("key", host.seg, host.sent, host.pos)
  BY <1>1 DEF HostSane, StepSane, Early
<1>7. Sync("key", host.seg, host.sent, host.pos)
  BY DEF Sync, Early, Loading, Closing
<1> HIDE DEF h
<1>8. QED
  BY <1>2, <1>3, <1>4, <1>5, <1>6, <1>7, Heard

LEMMA SegmentOpened ==
  ASSUME Good, Remembered, Inert, rx' = <<>>, tx' = <<>>, late' = {}, host.waiting, OpenSegment,
         EraseOver, Counted(host.pos, svc, flash), InSegment(host.seg, 0, svc)
  PROVE  Good'
<1> DEFINE sn == 1 % SnMod
           h == [step |-> "xfer", waiting |-> FALSE, seed |-> host.seed, seg |-> host.seg,
                 sent |-> 0, sn |-> sn, pos |-> host.pos, crc |-> host.crc]
<1>1. /\ HostSane /\ host.step = "download"
      /\ host' = [host EXCEPT !.step = "xfer", !.waiting = FALSE, !.sent = 0, !.sn = sn]
  BY DEF Good, OpenSegment
<1>2. sn \in Nat
  BY BootServerAssumption
<1> HIDE DEF sn
<1>3. host' = h
  BY <1>1 DEF HostSane, Hosts
<1>4. h \in Hosts
  BY <1>1, <1>2, HostIs DEF Hosts, Steps
<1>5. ~Encrypted => Len(host.crc) = host.pos
  BY <1>1 DEF HostSane
<1>6. /\ h.step = "xfer" /\ h.waiting = FALSE /\ h.seg = host.seg /\ h.sent = 0
      /\ h.pos = host.pos /\ h.crc = host.crc
  OBVIOUS
<1>7. StepSane("xfer", host.seg, 0, host.pos)
  <2>1. host.pos = Start(host.seg) /\ Start(host.seg) \in Nat /\ 0 < Len(File[host.seg].data)
    BY <1>1, HostIs, FileIs, FlatSeq DEF HostSane, StepSane
  <2>2. QED
    BY <2>1 DEF StepSane, Early
<1>8. Sync("xfer", host.seg, 0, host.pos)
  BY DEF Sync, Early, Loading, Closing
<1> HIDE DEF h
<1>9. QED
  BY <1>3, <1>4, <1>5, <1>6, <1>7, <1>8, Heard

LEMMA NumberIs ==
  ASSUME NEW n \in Nat
  PROVE  (n + 1) % SnMod \in Nat
<1>1. SnMod \in Nat \ {0} /\ n + 1 \in Nat
  BY BootServerAssumption
<1>2. QED
  BY <1>1

LEMMA BlockTaken ==
  ASSUME Good, Remembered, Inert, rx' = <<>>, tx' = <<>>, late' = {}, host.waiting, NextBlock,
         EraseOver, Counted(host.pos + 1, svc, flash), InSegment(host.seg, host.sent + 1, svc)
  PROVE  Good'
<1> DEFINE more    == host.sent + 1 < Len(Segment.data)
           another == host.seg < Len(File)
           step    == IF more THEN "xfer" ELSE IF another THEN "download" ELSE "exit"
           sent    == host.sent + 1
           sn      == (host.sn + 1) % SnMod
           pos     == host.pos + 1
           seg     == IF ~more /\ another THEN host.seg + 1 ELSE host.seg
           h == [step |-> step, waiting |-> FALSE, seed |-> host.seed, seg |-> seg,
                 sent |-> sent, sn |-> sn, pos |-> pos, crc |-> host.crc]
<1>1. /\ HostSane /\ host.step = "xfer"
      /\ host' = [host EXCEPT !.step = step, !.waiting = FALSE, !.sent = @ + 1,
                              !.sn = (@ + 1) % SnMod, !.pos = @ + 1, !.seg = seg]
  BY DEF Good, NextBlock
<1>2. /\ host.seg \in 1 .. Len(File) /\ host.sent \in Nat /\ host.sn \in Nat /\ host.pos \in Nat
      /\ Len(File) \in Nat /\ Len(File[host.seg].data) \in Nat
  BY <1>1, HostIs, FileIs
<1>3. host.pos = Start(host.seg) + host.sent /\ host.sent < Len(File[host.seg].data)
  BY <1>1 DEF HostSane, StepSane
<1>4. step \in {"xfer", "download", "exit"} /\ seg \in 1 .. Len(File)
  BY <1>2
<1>5. sent \in Nat /\ pos \in Nat /\ sn \in Nat
  <2>1. host.sn \in Nat /\ host.sent \in Nat /\ host.pos \in Nat
    BY <1>2
  <2>2. sn \in Nat
    BY <2>1, NumberIs
  <2>3. QED
    BY <2>1, <2>2
<1>6. ~Encrypted => Len(host.crc) = pos
  BY <1>1 DEF HostSane
<1>7. StepSane(step, seg, sent, pos)
  <2>1. Start(host.seg) \in Nat
    BY <1>2, FlatSeq
  <2>2. CASE more
    <3>1. pos = Start(host.seg) + sent /\ sent < Len(File[host.seg].data)
      BY <1>2, <1>3, <2>1, <2>2 DEF Segment
    <3>2. QED
      BY <2>2, <3>1 DEF StepSane, Early
  <2>3. CASE ~more
    <3>1. sent = Len(File[host.seg].data)
      BY <1>2, <1>3, <2>3 DEF Segment
    <3>2. pos = Start(host.seg) + Len(File[host.seg].data)
      BY <1>2, <1>3, <2>1, <3>1
    <3>3. pos = IF another THEN Start(host.seg + 1) ELSE Len(FileSum)
      BY <1>2, <3>2, StartStep
    <3>4. QED
      BY <2>3, <3>3 DEF StepSane, Early
  <2>4. QED
    BY <2>2, <2>3
<1>8. Sync(step, seg, sent, pos)
  BY DEF Sync, Early, Loading, Closing
<1>9. host' = [host EXCEPT !.step = step, !.waiting = FALSE, !.sent = sent, !.sn = sn,
                           !.pos = pos, !.seg = seg]
  BY <1>1 DEF HostSane, Hosts
<1> HIDE DEF step, seg, sent, sn, pos
<1>10. host' = h
  BY <1>1, <1>9 DEF HostSane, Hosts
<1>11. h \in Hosts
  BY <1>1, <1>4, <1>5, HostIs DEF Hosts, Steps
<1>12. /\ h.step = step /\ h.waiting = FALSE /\ h.seg = seg /\ h.sent = sent
       /\ h.pos = pos /\ h.crc = host.crc
  OBVIOUS
<1> HIDE DEF h
<1>13. QED
  BY <1>4, <1>6, <1>7, <1>8, <1>10, <1>11, <1>12, Heard

LEMMA HearIs ==
  ASSUME Hear, NEW r, r = Head(tx)
  PROVE  \/ ~Answers(r) /\ Move(host.step, "failed")
         \/ Answers(r) /\ Move("session", "seed")
         \/ Answers(r) /\ host.step = "seed" /\ TakeSeed(r.val[2])
         \/ Answers(r) /\ (Move("key", "header") \/ Move("key", "erase"))
         \/ Answers(r) /\ Move("header", "erase")
         \/ Answers(r) /\ Move("erase", "erase_poll")
         \/ Answers(r) /\ Polled("erase_poll", "download", r.val[2])
         \/ Answers(r) /\ OpenSegment
         \/ Answers(r) /\ NextBlock
         \/ Answers(r) /\ Move("exit", "check")
         \/ Answers(r) /\ Move("check", "check_poll")
         \/ Answers(r) /\ Polled("check_poll", "reset", r.val[2])
         \/ Answers(r) /\ Move("reset", "done")
<1>1. Move("key", IF Encrypted THEN "header" ELSE "erase")
        => Move("key", "header") \/ Move("key", "erase")
  OBVIOUS
<1> DEFINE q == Head(tx)
<1>2. \/ ~Answers(q) /\ Move(host.step, "failed")
      \/ Answers(q) /\ Move("session", "seed")
      \/ Answers(q) /\ host.step = "seed" /\ TakeSeed(q.val[2])
      \/ Answers(q) /\ (Move("key", "header") \/ Move("key", "erase"))
      \/ Answers(q) /\ Move("header", "erase")
      \/ Answers(q) /\ Move("erase", "erase_poll")
      \/ Answers(q) /\ Polled("erase_poll", "download", q.val[2])
      \/ Answers(q) /\ OpenSegment
      \/ Answers(q) /\ NextBlock
      \/ Answers(q) /\ Move("exit", "check")
      \/ Answers(q) /\ Move("check", "check_poll")
      \/ Answers(q) /\ Polled("check_poll", "reset", q.val[2])
      \/ Answers(q) /\ Move("reset", "done")
  BY <1>1, Zenon DEF Hear
<1>3. r = q
  OBVIOUS
<1> HIDE DEF q
<1>4. QED
  BY <1>2, <1>3

LEMMA HearGood ==
  ASSUME Good, Remembered, Tool, Hear
  PROVE  Good'
<1> DEFINE r == Head(tx)
<1>1. /\ HostSane /\ Channel /\ late' = {} /\ Inert /\ host.waiting
      /\ tx # <<>> /\ tx' = Tail(tx) /\ rx' = rx
  BY DEF Good, Tool, Hear
<1>2. rx' = <<>> /\ tx' = <<>>
  BY <1>1, OneInChannel
<1>3. Replied(r)
  <2>1. tx = <<tx[1]>> /\ Replied(tx[1])
    BY <1>1 DEF Channel
  <2>2. \A x : Head(<<x>>) = x
    OBVIOUS
  <2>3. QED
    BY <2>1, <2>2
<1>4. StepSane(host.step, host.seg, host.sent, host.pos)
  BY <1>1 DEF HostSane
<1>5. host.step \in Steps
  BY <1>1 DEF HostSane
<1>6. r = Head(tx)
  OBVIOUS
<1> HIDE DEF r
<1>7. CASE ~Answers(r) /\ Move(host.step, "failed")
  <2>1. "failed" \in (Steps \ {"xfer"}) \cup Ends
    BY DEF Steps, Ends
  <2>2. QED
    BY <1>1, <1>2, <1>7, <2>1, Failing, Moved
<1>8. ASSUME NEW from, NEW to, Move(from, to), Answers(r),
             <<from, to>> \in {<<"session", "seed">>, <<"key", "header">>, <<"key", "erase">>,
                               <<"header", "erase">>, <<"erase", "erase_poll">>,
                               <<"erase_poll", "erase_poll">>}
      PROVE  Good'
  <2>1. /\ host.step = from /\ from \in Early \cup {"session"}
        /\ to \in Early \ {"seed"} \/ (from = "session" /\ to = "seed")
    BY <1>8 DEF Move, Early
  <2>2. NothingYet
    BY <1>3, <1>8, <2>1 DEF Replied
  <2>3. Sync(to, host.seg, host.sent, host.pos)
    BY <2>1, <2>2 DEF Sync, Early, Loading, Closing
  <2>4. StepSane(to, host.seg, host.sent, host.pos)
    BY <1>4, <2>1 DEF StepSane, Early
  <2>5. to \in (Steps \ {"xfer"}) \cup Ends /\ from # "xfer"
    BY <2>1 DEF Steps, Ends, Early
  <2>6. QED
    BY <1>1, <1>2, <1>8, <2>3, <2>4, <2>5, Moved
<1>9. CASE Answers(r) /\ Move("erase_poll", "download") /\ r.val[2] = 1
  <2>1. host.step = "erase_poll" /\ NothingYet /\ EraseOver
    BY <1>3, <1>9 DEF Move, Replied, Early
  <2>2. host.pos = 0 /\ host.seg = 1
    BY <1>4, <2>1 DEF StepSane, Early
  <2>3. StepSane("download", host.seg, host.sent, host.pos)
    BY <2>2, StartStep DEF StepSane, Early
  <2>4. Sync("download", host.seg, host.sent, host.pos)
    BY <2>1, <2>2, NothingSent DEF Sync, Early, Closing
  <2>5. "download" \in (Steps \ {"xfer"}) \cup Ends
    BY DEF Steps
  <2>6. QED
    BY <1>1, <1>2, <1>9, <2>3, <2>4, <2>5, Moved
<1>10. CASE Answers(r) /\ Move("exit", "check")
  <2>1. host.step = "exit" /\ Counted(host.pos, svc, flash) /\ EraseOver
    BY <1>3, <1>10 DEF Move, Replied, Loading
  <2>2. StepSane("check", host.seg, host.sent, host.pos)
    BY <1>4, <2>1 DEF StepSane, Early
  <2>3. Sync("check", host.seg, host.sent, host.pos)
    BY <2>1 DEF Sync, Early, Closing
  <2>4. "check" \in (Steps \ {"xfer"}) \cup Ends
    BY DEF Steps
  <2>5. QED
    BY <1>1, <1>2, <1>10, <2>2, <2>3, <2>4, Moved
<1>11. ASSUME NEW from \in {"check", "check_poll"}, Move(from, "check_poll"), Answers(r)
       PROVE  Good'
  <2>1. host.step = from /\ EraseOver /\ (csum.result = 1 => InPlace)
    BY <1>3, <1>11 DEF Move, Replied, Loading
  <2>2. StepSane("check_poll", host.seg, host.sent, host.pos)
    BY DEF StepSane, Early
  <2>3. Sync("check_poll", host.seg, host.sent, host.pos)
    BY <2>1 DEF Sync, Early, Loading
  <2>4. "check_poll" \in (Steps \ {"xfer"}) \cup Ends
    BY DEF Steps
  <2>5. QED
    BY <1>1, <1>2, <1>11, <2>2, <2>3, <2>4, Moved
<1>12. CASE Answers(r) /\ Move("check_poll", "reset") /\ r.val[2] = 1
  <2>1. host.step = "check_poll" /\ EraseOver /\ InPlace
    BY <1>3, <1>12 DEF Move, Replied, Loading
  <2>2. StepSane("reset", host.seg, host.sent, host.pos)
    BY DEF StepSane, Early
  <2>3. Sync("reset", host.seg, host.sent, host.pos)
    BY <2>1 DEF Sync, Early, Loading
  <2>4. "reset" \in (Steps \ {"xfer"}) \cup Ends
    BY DEF Steps
  <2>5. QED
    BY <1>1, <1>2, <1>12, <2>2, <2>3, <2>4, Moved
<1>13. CASE Answers(r) /\ Move("reset", "done")
  <2>1. host.step = "reset" /\ EraseOver /\ InPlace
    BY <1>3, <1>13 DEF Move, Replied, Loading
  <2>2. StepSane("done", host.seg, host.sent, host.pos)
    BY DEF StepSane, Early
  <2>3. Sync("done", host.seg, host.sent, host.pos)
    BY <2>1 DEF Sync, Early, Loading
  <2>4. "done" \in (Steps \ {"xfer"}) \cup Ends
    BY DEF Ends
  <2>5. QED
    BY <1>1, <1>2, <1>13, <2>2, <2>3, <2>4, Moved
<1>14. CASE Answers(r) /\ (Move("erase_poll", "failed") \/ Move("check_poll", "failed"))
  <2>1. "failed" \in (Steps \ {"xfer"}) \cup Ends
    BY DEF Ends
  <2>2. QED
    BY <1>1, <1>2, <1>14, <2>1, Failing, Moved
<1>15. CASE Answers(r) /\ host.step = "seed" /\ TakeSeed(r.val[2])
  <2>1. NothingYet /\ r.val[2] \in Seeds
    BY <1>3, <1>15 DEF Replied, Early
  <2>2. QED
    BY <1>1, <1>2, <1>15, <2>1, SeedTaken
<1>16. CASE Answers(r) /\ OpenSegment
  <2>1. EraseOver /\ Counted(host.pos, svc, flash) /\ InSegment(host.seg, 0, svc)
    BY <1>3, <1>16 DEF OpenSegment, Replied, Loading
  <2>2. QED
    BY <1>1, <1>2, <1>16, <2>1, SegmentOpened
<1>17. CASE Answers(r) /\ NextBlock
  <2>1. EraseOver /\ Counted(host.pos + 1, svc, flash) /\ InSegment(host.seg, host.sent + 1, svc)
    BY <1>3, <1>17 DEF NextBlock, Replied, Loading
  <2>2. QED
    BY <1>1, <1>2, <1>17, <2>1, BlockTaken
<1>18. CASE Answers(r) /\ Polled("erase_poll", "download", r.val[2])
  BY <1>8, <1>9, <1>14, <1>18 DEF Polled
<1>19. CASE Answers(r) /\ Polled("check_poll", "reset", r.val[2])
  BY <1>11, <1>12, <1>14, <1>19 DEF Polled
<1>20. CASE Answers(r) /\ (Move("session", "seed") \/ Move("key", "header")
                           \/ Move("key", "erase") \/ Move("header", "erase")
                           \/ Move("erase", "erase_poll"))
  BY <1>8, <1>20
<1>21. CASE Answers(r) /\ Move("check", "check_poll")
  BY <1>11, <1>21
<1>22. QED
  BY <1>1, <1>7, <1>10, <1>13, <1>15, <1>16, <1>17, <1>6, <1>18, <1>19, <1>20, <1>21, HearIs DEF Tool


LEMMA RerunGood ==
  ASSUME Good, Rerun
  PROVE  Good'
<1>1. /\ DeviceSane /\ late' = {} /\ Inert /\ host' = HostInit /\ rx' = <<>> /\ tx' = <<>>
  BY DEF Good, Rerun
<1>2. DeviceSane'
  BY <1>1, AtRest
<1>3. HostSane'
  BY <1>1, FreshHost DEF HostSane
<1>4. Channel'
  BY <1>1, FreshHost DEF Channel, Sync, Early, Loading, Closing
<1>5. QED
  BY <1>1, <1>2, <1>3, <1>4 DEF Good

LEMMA Stuttering ==
  ASSUME Good, Remembered, UNCHANGED sysVars
  PROVE  Good'
<1>1. DeviceSane /\ HostSane /\ Channel /\ late' = {} /\ UNCHANGED <<host, rx, tx>> /\ Inert
  BY DEF Good, sysVars, netVars, vars, Inert, bootVars, taskVars, flashVars, hist
<1>2. DeviceSane' /\ Calm
  BY <1>1, AtRest
<1>3. QED
  BY <1>1, <1>2, CalmStep DEF Good

LEMMA StepRemembers ==
  ASSUME [SysNext]_sysVars
  PROVE  Remembered
<1> SUFFICES ASSUME InPlace, flash' = flash PROVE InPlace'
  BY DEF Remembered
<1>1. FileInFlash' /\ (AppFlagValid' <=> AppFlagValid)
  BY DEF InPlace, FileInFlash, AppFlagValid
<1>2. AppFlagValid \/ unmarked
  BY DEF InPlace
<1>3. CASE NoteMark(ChecksumPasses)
  BY <1>1, <1>2, <1>3 DEF NoteMark, InPlace
<1>4. CASE NoteMark(FALSE)
  BY <1>1, <1>2, <1>4 DEF NoteMark, InPlace
<1>5. CASE UNCHANGED sysVars
  BY <1>1, <1>2, <1>5 DEF sysVars, InPlace
<1>6. QED
  BY <1>3, <1>4, <1>5 DEF SysNext

LEMMA InvInit == SysInit => SysInv
<1>1. SysInit => Good
  BY InitGood
<1>2. SysInit => copies = 0
  BY DEF SysInit
<1>3. QED
  BY <1>1, <1>2 DEF SysInv

LEMMA InvNext == SysInv /\ [SysNext]_sysVars => SysInv'
<1> SUFFICES ASSUME SysInv, [SysNext]_sysVars PROVE SysInv'
  OBVIOUS
<1>1. CASE Copy
  <2>1. copies \in Nat /\ copies' = copies + 1
    BY <1>1 DEF SysInv, Copy
  <2>2. QED
    BY <2>1 DEF SysInv
<1>2. CASE copies' = copies
  <2> SUFFICES ASSUME copies = 0 PROVE Good'
    BY <1>2 DEF SysInv
  <2>1. Good /\ Remembered
    BY StepRemembers DEF SysInv
  <2>2. CASE Deliver /\ NoteMark(ChecksumPasses)
    <3>1. DeviceSane /\ HostSane /\ Channel /\ late' = {}
      BY <2>1, <2>2 DEF Good, Deliver
    <3>2. DeviceSane' /\ HostSane' /\ Channel'
      BY <2>1, <2>2, <3>1, DeliverDoes
    <3>3. QED
      BY <3>1, <3>2 DEF Good
  <2>3. CASE Alone
    BY <2>1, <2>3, AloneGood
  <2>4. CASE Restart
    BY <2>1, <2>4, RestartGood
  <2>5. CASE Ignored
    BY <2>1, <2>5, IgnoredGood
  <2>6. CASE Tool
    BY <2>1, <2>6, EnterGood, AskGood, HearGood DEF Tool, HostNext
  <2>7. CASE Rerun
    BY <2>1, <2>7, RerunGood
  <2>8. CASE Lose
    BY <2>1, <2>8, LoseGood
  <2>9. CASE Arrive
    BY <2>1, <2>9 DEF Good, Arrive
  <2>10. CASE UNCHANGED sysVars
    BY <2>1, <2>10, Stuttering
  <2>11. CASE Copy
    <3>1. copies \in Nat /\ copies' = copies + 1
      BY <2>11 DEF SysInv, Copy
    <3>2. QED
      BY <1>2, <3>1
  <2>12. QED
    BY <2>2, <2>3, <2>4, <2>5, <2>6, <2>7, <2>8, <2>9, <2>10, <2>11 DEF SysNext, Others
<1>3. Copy \/ copies' = copies
  BY DEF SysNext, Others, Deliver, Alone, Restart, Ignored, Tool, Rerun, Lose, Arrive,
         sysVars, netVars
<1>4. QED
  BY <1>1, <1>2, <1>3

\* What the history says.
MarkSane == unmarked \in BOOLEAN /\ (unmarked => FileInFlash /\ ~AppFlagValid)

LEMMA MarkInit == SysInit => MarkSane
BY DEF SysInit, MarkSane

LEMMA MarkNext == MarkSane /\ [SysNext]_sysVars => MarkSane'
<1>1. ASSUME MarkSane, UNCHANGED sysVars
      PROVE  MarkSane'
  BY <1>1 DEF MarkSane, sysVars, vars, flashVars, FileInFlash, AppFlagValid
<1>2. NoteMark(ChecksumPasses) => MarkSane'
  BY DEF NoteMark, MarkSane
<1>3. NoteMark(FALSE) => MarkSane'
  BY DEF NoteMark, MarkSane
<1>4. QED
  BY <1>1, <1>2, <1>3 DEF SysNext

\* The script does not end while a datagram is under way.
LEMMA AtTheEnd ==
  ASSUME Good, Told = "ok"
  PROVE  InPlace
<1>1. host.step = "done"
  BY DEF Told
<1>2. ~host.waiting
  BY <1>1 DEF Good, HostSane, Steps
<1>3. Sync(host.step, host.seg, host.sent, host.pos)
  BY <1>2 DEF Good, Channel
<1>4. QED
  BY <1>1, <1>3 DEF Sync

LEMMA TruthHolds ==
  ASSUME Good
  PROVE  SuccessIsTrue \/ (unmarked /\ FileInFlash)
BY AtTheEnd DEF SuccessIsTrue, InPlace, Boots

(***************************************************************************)
(* "VCI8 Programe Complete Successfully.": as long as the network copied   *)
(* no datagram, a tool that printed it leaves the whole file in the flash  *)
(* and the device bootable, for every file, and whatever datagrams were    *)
(* lost, writes and erases failed, power was lost and scripts started over *)
(* (vci_prog, the service handlers, erase_routine_task).  The exception is *)
(* one failure that flash_write does not report: the controller does not   *)
(* take the flag, the last unit written.  The file is in the flash then,   *)
(* whole, and the device does not start it.                                *)
(***************************************************************************)
THEOREM SuccessIsTold ==
  SysSpec => [](copies = 0 => SuccessIsTrue \/ (unmarked /\ FileInFlash /\ ~AppFlagValid))
<1>1. SysInv /\ MarkSane =>
        (copies = 0 => SuccessIsTrue \/ (unmarked /\ FileInFlash /\ ~AppFlagValid))
  BY TruthHolds DEF SysInv, MarkSane
<1>2. QED
  BY <1>1, InvInit, InvNext, MarkInit, MarkNext, PTL DEF SysSpec

-----------------------------------------------------------------------------
(* What becomes of the flag.                                               *)

\* Flash only loses what it holds; the flag does not come; or if it comes,
\* then with the whole file.
OnlyWiped == \A a \in Cells : flash'[a] \in {flash[a], Erased, Damaged}
NoFlag    == AppFlagValid' => AppFlagValid
NoTrick   ==
  /\ AppFlagValid' => IF AppFlagValid THEN FileInFlash' => FileInFlash ELSE FileInFlash'
  /\ host.step = "done" => NoFlag

LEMMA WipedIs ==
  ASSUME OnlyWiped
  PROVE  NoFlag /\ (WholeApplication => NoTrick)
<1>1. FlagAddr \in Cells /\ AppFlag \notin {Erased, Damaged}
  BY BootServerAssumption
<1>2. NoFlag
  BY <1>1 DEF OnlyWiped, NoFlag, AppFlagValid
<1>3. ASSUME WholeApplication, FileInFlash'
      PROVE  FileInFlash
  <2>1. ASSUME NEW i \in DOMAIN File, NEW k \in DOMAIN File[i].data
        PROVE  flash[File[i].addr + k - 1] = File[i].data[k]
    <3> DEFINE a == File[i].addr + k - 1
               v == File[i].data[k]
    <3>1. a \in Cells
      BY FileAssumption
    <3>2. flash'[a] = v /\ v \notin {Erased, Damaged}
      BY <1>3 DEF FileInFlash, WholeApplication
    <3> HIDE DEF a, v
    <3>3. flash[a] = v
      BY <3>1, <3>2 DEF OnlyWiped
    <3>4. QED
      BY <3>3 DEF a, v
  <2>2. QED
    BY <2>1 DEF FileInFlash
<1>4. QED
  BY <1>2, <1>3 DEF NoTrick, NoFlag

LEMMA TaskWipes ==
  ASSUME DeviceSane, EraseTask
  PROVE  OnlyWiped
<1>1. flash \in [Cells -> Content]
  BY DEF DeviceSane
<1>2. CASE flash' = flash
  BY <1>2 DEF OnlyWiped
<1>3. CASE EraseDone
  BY <1>1, <1>3 DEF EraseDone, OnlyWiped
<1>4. CASE EraseFailed
  BY <1>1, <1>4, Cut DEF EraseFailed, OnlyWiped
<1>5. flash' = flash \/ EraseDone \/ EraseFailed
  BY DEF EraseTask, TakeErase, ClearRequest, BeginErase, EndErase, JudgeErase, PublishErase,
         EraseBegins, EraseOfNothing, EraseNotEnabled, flashVars
<1>6. QED
  BY <1>2, <1>3, <1>4, <1>5

LEMMA StartUpWipes ==
  ASSUME DeviceSane, NEW asked, StartUp(asked)
  PROVE  OnlyWiped
BY Cut DEF DeviceSane, StartUp, OnlyWiped

LEMMA XferNoFlag ==
  ASSUME DeviceSane, NEW sn, NEW b, b.val \in Data, XferData(sn, b)
  PROVE  NoFlag
<1>1. /\ flash \in [Cells -> Content] /\ FlagAddr \in Cells
      /\ AppFlag \notin Data \cup {Scrambled, Damaged}
  BY BootServerAssumption DEF DeviceSane
<1>2. Decrypt(b) # AppFlag
  BY <1>1 DEF Decrypt
<1>3. CASE flash' = flash
  BY <1>3 DEF NoFlag, AppFlagValid
<1>4. ASSUME NEW a \in Cells, NEW v, v # AppFlag, flash' = [flash EXCEPT ![a] = v]
      PROVE  NoFlag
  BY <1>1, <1>4 DEF NoFlag, AppFlagValid
<1>5. CASE flash_write_succeeds(NextAddr, Decrypt(b))
  BY <1>2, <1>3, <1>4, <1>5 DEF flash_write_succeeds, WriteDone, WriteLost, Programmable
<1>6. CASE flash_write_fails(NextAddr)
  BY <1>1, <1>3, <1>4, <1>6 DEF flash_write_fails, WriteRefused, WriteFailed, Programmable
<1>7. QED
  BY <1>3, <1>5, <1>6 DEF XferData

(***************************************************************************)
(* From the end of a successful erase until the checksum is accepted the   *)
(* flag is not there: in the task, in what the device holds for a poll, in *)
(* the answer to it, and in the steps of the script behind that answer.    *)
(***************************************************************************)
DeviceGone ==
  /\ erase.req = 1 \/ pc # "poll" => erase.address = EraseRange[1] /\ erase.size = EraseRange[2]
  /\ pc = "wait" => ers = flash_get_block_select(EraseRange[1], EraseRange[2])
  /\ pc = "judge" /\ ~erase.failed => ~AppFlagValid
  /\ pc = "publish" /\ erase.result = 1 => ~AppFlagValid
  /\ erase.state = 2 /\ erase.result = 1 => ~AppFlagValid
ToolGone ==
  /\ host.step \in {"download", "xfer", "exit"} => ~AppFlagValid
  /\ host.step = "check" /\ (~host.waiting \/ rx # <<>>) => ~AppFlagValid
  /\ host.step = "erase_poll" /\ tx # <<>> /\ Answers(tx[1]) /\ tx[1].val[2] = 1 => ~AppFlagValid

FlagGone == DeviceGone /\ ToolGone

LEMMA DeviceGoneStays ==
  ASSUME DeviceGone, NoFlag, UNCHANGED <<erase, pc, ers>>
  PROVE  DeviceGone'
BY DEF DeviceGone, NoFlag

LEMMA ToolGoneStays ==
  ASSUME ToolGone, NoFlag, UNCHANGED host, rx' = rx \/ rx' = <<>>, tx' = tx \/ tx' = <<>>
  PROVE  ToolGone'
<1>1. \A r : Answers(r)' <=> Answers(r)
  BY DEF Answers, Asked, Segment, Block
<1>2. QED
  BY <1>1 DEF ToolGone, NoFlag

LEMMA SameFlash ==
  ASSUME UNCHANGED flash
  PROVE  NoFlag /\ NoTrick
BY DEF NoFlag, NoTrick, AppFlagValid, FileInFlash

LEMMA TaskGone ==
  ASSUME WholeApplication, DeviceSane, DeviceGone, EraseTask
  PROVE  DeviceGone'
<1> DEFINE sel == flash_get_block_select(EraseRange[1], EraseRange[2])
<1>1. NoFlag
  BY TaskWipes, WipedIs
<1>2. /\ erase \in Erases /\ flash \in [Cells -> Content]
      /\ erase.req = 1 => pc \in {"poll", "taken"}
      /\ pc # "poll" <=> erase.state = 1
  BY DEF DeviceSane
<1>3. FlagAddr \in Cells /\ AppFlag # Erased /\ FlagAddr \in UNION {Span(b) : b \in sel}
  BY BootServerAssumption DEF WholeApplication, Touched
<1> HIDE DEF sel
<1>4. CASE TakeErase
  <2>1. /\ erase'.state = 1 /\ erase'.req = 1 /\ pc' = "taken"
        /\ erase'.address = erase.address /\ erase'.size = erase.size
    BY <1>2, <1>4 DEF TakeErase, Erases
  <2>2. QED
    BY <1>4, <2>1 DEF DeviceGone, TakeErase
<1>5. CASE ClearRequest
  <2>1. /\ erase'.state = 1 /\ pc' = "begin"
        /\ erase'.address = erase.address /\ erase'.size = erase.size
    BY <1>2, <1>5 DEF ClearRequest, Erases
  <2>2. QED
    BY <1>5, <2>1 DEF DeviceGone, ClearRequest
<1>6. CASE BeginErase
  <2>1. /\ erase.address = EraseRange[1] /\ erase.size = EraseRange[2] /\ erase.state = 1
    BY <1>2, <1>6 DEF DeviceGone, BeginErase
  <2>2. \/ EraseBegins(sel) /\ pc' = "wait" /\ erase' = erase
        \/ EraseOfNothing(sel)
        \/ pc' = "judge" /\ erase' = [erase EXCEPT !.failed = TRUE]
    BY <1>6, <2>1 DEF BeginErase, sel
  <2>3. ~EraseOfNothing(sel)
    BY <1>3 DEF EraseOfNothing
  <2>4. CASE EraseBegins(sel) /\ pc' = "wait" /\ erase' = erase
    BY <2>1, <2>4 DEF DeviceGone, EraseBegins, sel
  <2>5. CASE pc' = "judge" /\ erase' = [erase EXCEPT !.failed = TRUE]
    <3>1. /\ erase'.failed /\ erase'.state = 1
          /\ erase'.address = erase.address /\ erase'.size = erase.size
      BY <1>2, <2>1, <2>5 DEF Erases
    <3>2. QED
      BY <2>1, <2>5, <3>1 DEF DeviceGone
  <2>6. QED
    BY <2>2, <2>3, <2>4, <2>5
<1>7. CASE EndErase
  <2>1. /\ erase.address = EraseRange[1] /\ erase.size = EraseRange[2] /\ erase.state = 1
        /\ ers = sel /\ pc' = "judge"
    BY <1>2, <1>7 DEF DeviceGone, EndErase, sel
  <2>2. CASE EraseDone
    <3>1. FlagAddr \in UnderErase
      BY <1>3, <2>1 DEF UnderErase
    <3>2. ~AppFlagValid'
      BY <1>3, <2>2, <3>1 DEF EraseDone, AppFlagValid
    <3>3. erase'.address = erase.address /\ erase'.size = erase.size /\ erase'.state = 1
      BY <1>2, <1>7, <2>1 DEF EndErase, Erases
    <3>4. QED
      BY <2>1, <3>2, <3>3 DEF DeviceGone
  <2>3. CASE erase' = [erase EXCEPT !.failed = TRUE]
    <3>1. /\ erase'.failed /\ erase'.state = 1
          /\ erase'.address = erase.address /\ erase'.size = erase.size
      BY <1>2, <2>1, <2>3 DEF Erases
    <3>2. QED
      BY <2>1, <3>1 DEF DeviceGone
  <2>4. QED
    BY <1>7, <2>2, <2>3 DEF EndErase
<1>8. CASE JudgeErase
  <2>1. /\ erase'.state = 1 /\ pc' = "publish"
        /\ erase'.address = erase.address /\ erase'.size = erase.size
        /\ erase'.result = 1 => ~erase.failed
    BY <1>2, <1>8 DEF JudgeErase, EraseVerdict, Erases
  <2>2. QED
    BY <1>1, <1>8, <2>1 DEF DeviceGone, JudgeErase, NoFlag
<1>9. CASE PublishErase
  <2>1. /\ erase'.result = erase.result /\ erase'.req = erase.req /\ pc = "publish" /\ pc' = "poll"
    BY <1>2, <1>9 DEF PublishErase, Erases
  <2>2. erase.req # 1
    BY <1>2, <2>1
  <2>3. QED
    BY <1>1, <2>1, <2>2 DEF DeviceGone, NoFlag
<1>10. QED
  BY <1>4, <1>5, <1>6, <1>7, <1>8, <1>9 DEF EraseTask

\* Handlers that touch neither the flash nor what the two tasks share.
LEMMA QuietHandlers ==
  ASSUME \/ SessionCtrl(2) \/ RequestSeed \/ \E key : SendKey(key)
         \/ \E h : WriteHeader(h) \/ \E a, n, enc : DownloadReq(a, n, enc)
         \/ ExitXfer \/ ChecksumResult \/ RequestReset \/ \E sid : Refuse(sid)
  PROVE  UNCHANGED <<flash, ers, erase, pc>>
<1>1. CASE SessionCtrl(2)
  BY <1>1 DEF SessionCtrl, taskVars, flashVars
<1>2. CASE RequestSeed
  BY <1>2 DEF RequestSeed, SvcAlone, taskVars, flashVars
<1>3. CASE \E key : SendKey(key)
  BY <1>3 DEF SendKey, SvcAlone, taskVars, flashVars
<1>4. CASE \E h : WriteHeader(h)
  BY <1>4 DEF WriteHeader, taskVars, flashVars
<1>5. CASE \E a, n, enc : DownloadReq(a, n, enc)
  BY <1>5 DEF DownloadReq, taskVars, flashVars
<1>6. CASE ExitXfer
  BY <1>6 DEF ExitXfer, SvcAlone, taskVars, flashVars
<1>7. CASE ChecksumResult
  BY <1>7 DEF ChecksumResult, taskVars, flashVars
<1>8. CASE RequestReset
  BY <1>8 DEF RequestReset, SvcAlone, taskVars, flashVars
<1>9. CASE \E sid : Refuse(sid)
  BY <1>9 DEF Refuse, Inert, taskVars, flashVars
<1>10. QED
  BY <1>1, <1>2, <1>3, <1>4, <1>5, <1>6, <1>7, <1>8, <1>9

LEMMA DeliverGone ==
  ASSUME DeviceSane, HostSane, Channel, FlagGone, Deliver
  PROVE  FlagGone' /\ NoTrick
<1>1. /\ host.waiting /\ rx = <<Asked>> /\ tx = <<>> /\ host.step \in Steps
      /\ Sync(host.step, host.seg, host.sent, host.pos)
  BY DEF Deliver, Channel, HostSane
<1>2. Serve(Asked) /\ rx' = <<>> /\ host' = host
  <2>1. Head(rx) = Asked /\ Tail(rx) = <<>>
    BY <1>1
  <2>2. QED
    BY <2>1 DEF Deliver
<1>3. rx # <<>>
  BY <1>1
<1>4. ASSUME NoFlag, host.step # "erase_poll"
      PROVE  ToolGone'
  BY <1>1, <1>2, <1>4 DEF FlagGone, ToolGone, NoFlag
<1>5. CASE \E sid : Refuse(sid)
  <2>1. UNCHANGED <<flash, ers, erase, pc>> /\ NoFlag /\ NoTrick
    BY <1>5, QuietHandlers, SameFlash
  <2>2. DeviceGone'
    BY <2>1, DeviceGoneStays DEF FlagGone
  <2>3. PICK r : tx' = <<r>> /\ r.nrc # 0
    BY <1>1, <1>5, RefuseDoes
  <2>4. ~Answers(r)' /\ tx'[1] = r
    BY <2>3 DEF Answers
  <2>5. ToolGone'
    BY <1>1, <1>2, <2>1, <2>4 DEF FlagGone, ToolGone, NoFlag
  <2>6. QED
    BY <2>1, <2>2, <2>5 DEF FlagGone
<1>6. CASE ~(\E sid : Refuse(sid)) /\ host.step \notin {"erase", "erase_poll", "xfer", "check"}
  <2>1. \/ SessionCtrl(2) \/ RequestSeed \/ \E key : SendKey(key)
        \/ \E h : WriteHeader(h) \/ \E a, n, enc : DownloadReq(a, n, enc)
        \/ ExitXfer \/ ChecksumResult \/ RequestReset
    BY <1>1, <1>2, <1>6, ServeAsked DEF Steps
  <2>2. UNCHANGED <<flash, ers, erase, pc>> /\ NoFlag /\ NoTrick
    BY <2>1, QuietHandlers, SameFlash
  <2>3. DeviceGone'
    BY <2>2, DeviceGoneStays DEF FlagGone
  <2>4. QED
    BY <1>4, <1>6, <2>2, <2>3 DEF FlagGone
<1>7. CASE ~(\E sid : Refuse(sid)) /\ host.step = "erase"
  <2>1. EraseStart(EraseRange[1], EraseRange[2])
    BY <1>1, <1>2, <1>7, ServeAsked
  <2>2. UNCHANGED <<flash, ers, pc>> /\ NoFlag /\ NoTrick
    BY <2>1, SameFlash DEF EraseStart, flashVars
  <2>3. CASE erase' = erase
    BY <1>4, <1>7, <2>2, <2>3, DeviceGoneStays DEF FlagGone
  <2>4. CASE erase' = ArmErase(EraseRange[1], EraseRange[2]) /\ ~EraseBusy
    <3>1. erase \in Erases /\ pc \in {"poll", "taken", "begin", "wait", "judge", "publish"}
          /\ (pc # "poll" <=> erase.state = 1)
      BY DEF DeviceSane
    <3>2. /\ erase'.address = EraseRange[1] /\ erase'.size = EraseRange[2] /\ erase'.result = 0
      BY <2>4, <3>1, Armed DEF ArmErase
    <3>3. pc' = "poll"
      BY <2>2, <2>4, <3>1 DEF EraseBusy
    <3>4. DeviceGone'
      BY <3>2, <3>3 DEF DeviceGone
    <3>5. QED
      BY <1>4, <1>7, <2>2, <3>4 DEF FlagGone
  <2>5. QED
    BY <2>1, <2>3, <2>4 DEF EraseStart
<1>8. CASE ~(\E sid : Refuse(sid)) /\ host.step = "erase_poll"
  <2>1. EraseResult
    BY <1>1, <1>2, <1>8, ServeAsked
  <2>2. UNCHANGED <<flash, ers, pc>> /\ NoFlag /\ NoTrick
    BY <2>1, SameFlash DEF EraseResult, flashVars
  <2>3. DeviceGone'
    <3>1. erase \in Erases
      BY DEF DeviceSane
    <3>2. /\ erase'.req = erase.req /\ erase'.address = erase.address
          /\ erase'.size = erase.size /\ erase'.failed = erase.failed
          /\ erase'.result = erase.result /\ (erase'.state = 2 => erase.state = 2)
      BY <2>1, <3>1 DEF EraseResult, Erases
    <3>3. QED
      BY <2>2, <3>2 DEF FlagGone, DeviceGone, NoFlag
  <2>4. PICK r : tx' = <<r>> /\ (r.nrc = 0 /\ r.val[2] = 1 => erase.state = 2 /\ erase.result = 1)
    BY <1>1, <2>1, EraseResultDoes
  <2>5. tx'[1] = r /\ (Answers(r)' /\ r.val[2] = 1 => ~AppFlagValid)
    BY <2>4 DEF Answers, FlagGone, DeviceGone
  <2>6. ToolGone'
    BY <1>2, <1>8, <2>2, <2>5 DEF ToolGone, NoFlag
  <2>7. QED
    BY <2>2, <2>3, <2>6 DEF FlagGone
<1>9. CASE ~(\E sid : Refuse(sid)) /\ host.step = "xfer"
  <2>1. XferData(host.sn, Block)
    BY <1>1, <1>2, <1>9, ServeAsked
  <2>2. Block.val \in Data
    <3>1. host.seg \in 1 .. Len(File) /\ host.sent + 1 \in 1 .. Len(File[host.seg].data)
      BY <1>9, HostIs, FileIs DEF HostSane, StepSane
    <3>2. QED
      BY <3>1, UnitAddrIs DEF Block, Segment
  <2>3. UNCHANGED <<ers, erase, pc>> /\ NoFlag
    BY <2>1, <2>2, XferNoFlag DEF XferData, taskVars
  <2>4. ~AppFlagValid /\ NoTrick
    BY <1>9, <2>3 DEF FlagGone, ToolGone, NoFlag, NoTrick
  <2>5. QED
    BY <1>4, <1>9, <2>3, <2>4, DeviceGoneStays DEF FlagGone
<1>10. CASE ~(\E sid : Refuse(sid)) /\ host.step = "check"
  <2>1. ChecksumStart(host.crc)
    BY <1>1, <1>2, <1>10, ServeAsked
  <2>2. EraseOver /\ Counted(Len(FileSum), svc, flash) /\ Matches(host.crc)
    BY <1>1, <1>10 DEF Sync, Loading, HostSane, StepSane
  <2>3. AppFlagValid' => AppFlagValid \/ FileInFlash'
    BY <1>1, <2>1, <2>2, ChecksumDoes
  <2>4. ~AppFlagValid
    BY <1>3, <1>10 DEF FlagGone, ToolGone
  <2>5. NoTrick
    BY <1>10, <2>3, <2>4 DEF NoTrick
  <2>6. UNCHANGED <<erase, pc>>
    BY <2>1 DEF ChecksumStart, taskVars
  <2>7. FlagGone'
    BY <1>1, <1>2, <1>10, <2>2, <2>6 DEF FlagGone, DeviceGone, ToolGone, EraseOver
  <2>8. QED
    BY <2>5, <2>7
<1>11. QED
  BY <1>5, <1>6, <1>7, <1>8, <1>9, <1>10

\* The steps other than Deliver.
LEMMA FlagInit ==
  ASSUME SysInit
  PROVE  FlagGone
BY DEF SysInit, TasksInit, EraseInit, HostInit, FlagGone, DeviceGone, ToolGone

LEMMA AloneGone ==
  ASSUME WholeApplication, Good, FlagGone, Alone
  PROVE  FlagGone' /\ NoTrick
<1>1. DeviceSane /\ DeviceGone /\ ToolGone /\ UNCHANGED <<rx, host>>
  BY DEF Good, FlagGone, Alone, netVars
<1>2. CASE Silence \/ AppAsks
  <2>1. UNCHANGED <<flash, erase, pc, ers, tx>>
    BY <1>2 DEF Silence, AppAsks, taskVars, flashVars
  <2>2. NoFlag /\ NoTrick
    BY <2>1, SameFlash
  <2>3. QED
    BY <1>1, <2>1, <2>2, DeviceGoneStays, ToolGoneStays DEF FlagGone
<1>3. CASE EraseTask
  <2>1. NoFlag /\ NoTrick /\ tx' = tx
    BY <1>1, <1>3, TaskWipes, WipedIs, TaskCalm
  <2>2. QED
    BY <1>1, <1>3, <2>1, TaskGone, ToolGoneStays DEF FlagGone
<1>4. QED
  BY <1>2, <1>3 DEF Alone

LEMMA RestartGone ==
  ASSUME WholeApplication, Good, FlagGone, Restart
  PROVE  FlagGone' /\ NoTrick
<1>1. DeviceSane /\ Channel /\ ToolGone /\ UNCHANGED host
  BY DEF Good, FlagGone, Restart
<1>2. PICK asked : StartUp(asked)
  BY DEF Restart, Reset, PowerLoss, AppResets
<1>3. NoFlag /\ NoTrick /\ tx' = tx
  BY <1>1, <1>2, StartUpWipes, WipedIs DEF StartUp
<1>4. DeviceGone'
  BY <1>2 DEF StartUp, EraseInit, DeviceGone
<1>5. ToolGone'
  BY <1>1, <1>3, RestartLoses, ToolGoneStays
<1>6. QED
  BY <1>3, <1>4, <1>5 DEF FlagGone

\* The network and the tool leave the device as it is.
LEMMA InertGone ==
  ASSUME DeviceGone, Inert
  PROVE  DeviceGone' /\ NoFlag /\ NoTrick
<1>1. UNCHANGED <<flash, erase, pc, ers>>
  BY DEF Inert, taskVars, flashVars
<1>2. QED
  BY <1>1, SameFlash, DeviceGoneStays

LEMMA NetworkGone ==
  ASSUME Good, FlagGone, Ignored \/ Lose
  PROVE  FlagGone' /\ NoTrick
<1>1. Channel /\ Inert /\ UNCHANGED host /\ DeviceGone /\ ToolGone
  BY DEF Good, FlagGone, Ignored, Lose, vars, Inert, bootVars, taskVars, flashVars, hist
<1>2. DeviceGone' /\ NoFlag /\ NoTrick
  BY <1>1, InertGone
<1>3. (rx' = rx \/ rx' = <<>>) /\ (tx' = tx \/ tx' = <<>>)
  <2>1. (rx # <<>> => Tail(rx) = <<>>) /\ (tx # <<>> => Tail(tx) = <<>>)
    BY <1>1, OneInChannel
  <2>2. CASE Ignored
    BY <2>1, <2>2 DEF Ignored, vars, bootVars
  <2>3. CASE Lose
    BY <2>1, <2>3 DEF Lose
  <2>4. QED
    BY <2>2, <2>3
<1>4. QED
  BY <1>1, <1>2, <1>3, ToolGoneStays DEF FlagGone

LEMMA EnterGone ==
  ASSUME Good, FlagGone, Tool, EnterBoot
  PROVE  FlagGone'
<1>1. host \in Hosts /\ host' = [host EXCEPT !.step = "session"] /\ DeviceGone /\ Inert
  BY DEF Good, HostSane, FlagGone, Tool, EnterBoot
<1>2. host'.step = "session"
  BY <1>1 DEF Hosts
<1>3. QED
  BY <1>1, <1>2, InertGone DEF FlagGone, ToolGone

LEMMA AskGone ==
  ASSUME Good, FlagGone, Tool, Ask
  PROVE  FlagGone'
<1>1. /\ host \in Hosts /\ ~host.waiting /\ tx' = tx /\ Inert
      /\ DeviceGone /\ ToolGone
  BY DEF Good, HostSane, FlagGone, Tool, Ask
<1>2. tx' = <<>>
  BY <1>1 DEF Good, Channel
<1>3. host'.step = host.step
  BY <1>1 DEF Ask, Hosts
<1>4. DeviceGone' /\ NoFlag
  BY <1>1, InertGone
<1>5. QED
  BY <1>1, <1>2, <1>3, <1>4 DEF FlagGone, ToolGone, NoFlag

LEMMA RerunGone ==
  ASSUME Good, FlagGone, Rerun
  PROVE  FlagGone'
<1>1. host'.step = "enter" /\ DeviceGone /\ Inert
  BY DEF FlagGone, Rerun, HostInit
<1>2. QED
  BY <1>1, InertGone DEF FlagGone, ToolGone

\* The step behind an answer; downloads begin behind a successful erase only.
LEMMA HearGone ==
  ASSUME Good, FlagGone, Tool, Hear
  PROVE  FlagGone'
<1> DEFINE r == tx[1]
<1>1. /\ host \in Hosts /\ host.waiting /\ tx # <<>> /\ tx' = Tail(tx) /\ Inert
      /\ DeviceGone /\ ToolGone /\ Channel
  BY DEF Good, HostSane, FlagGone, Tool, Hear
<1>2. tx' = <<>>
  BY <1>1, OneInChannel
<1>3. r = Head(tx)
  OBVIOUS
<1>4. DeviceGone' /\ NoFlag
  BY <1>1, InertGone
<1> HIDE DEF r
<1>5. ASSUME NEW from, NEW to, Move(from, to)
      PROVE  host.step = from /\ host'.step = to
  BY <1>1, <1>5 DEF Move, Hosts
<1>6. SUFFICES host'.step \in {"download", "xfer", "exit", "check"} => ~AppFlagValid
  BY <1>2, <1>4 DEF FlagGone, ToolGone, NoFlag
<1>7. CASE Answers(r) /\ Polled("erase_poll", "download", r.val[2])
  <2>1. host'.step = "download" => r.val[2] = 1 /\ host.step = "erase_poll"
    BY <1>5, <1>7 DEF Polled
  <2>2. host'.step \in {"erase_poll", "download", "failed"}
    BY <1>5, <1>7 DEF Polled
  <2>3. QED
    BY <1>1, <1>7, <2>1, <2>2 DEF ToolGone, r
<1>8. CASE OpenSegment \/ NextBlock \/ Move("exit", "check")
  BY <1>1, <1>5, <1>8 DEF OpenSegment, NextBlock, ToolGone
<1>9. CASE host.step = "seed" /\ TakeSeed(r.val[2])
  <2>1. host'.step = "key"
    BY <1>1, <1>9 DEF TakeSeed, Hosts
  <2>2. QED
    BY <2>1
<1>10. CASE Polled("check_poll", "reset", r.val[2])
  <2>1. host'.step \in {"check_poll", "reset", "failed"}
    BY <1>5, <1>10 DEF Polled
  <2>2. QED
    BY <2>1
<1>11. ASSUME NEW from, NEW to \in {"failed", "seed", "header", "erase", "erase_poll",
                                    "check_poll", "done"}, Move(from, to)
       PROVE  host'.step \notin {"download", "xfer", "exit", "check"}
  BY <1>5, <1>11
<1>12. QED
  BY <1>1, <1>3, <1>7, <1>8, <1>9, <1>10, <1>11, HearIs

-----------------------------------------------------------------------------
(* The steps of the promise.                                               *)

LEMMA BootsIs ==
  ASSUME MarkSane
  PROVE  /\ Boots = "unmarked" <=> unmarked
         /\ Boots = "loader" <=> ~AppFlagValid /\ ~unmarked
         /\ Boots = "file" <=> AppFlagValid /\ FileInFlash
         /\ Boots \in {"loader", "unmarked", "file", "other"}
BY DEF Boots, MarkSane

LEMMA ToldIs ==
  /\ Told = "ok" <=> host.step = "done"
  /\ Told = "failed" <=> host.step = "failed"
  /\ Told \in {"nothing", "ok", "failed"}
BY DEF Told

LEMMA EndsInPlace == Good' /\ (Told = "ok")' => InPlace'
<1>1. Good /\ Told = "ok" => InPlace
  BY AtTheEnd
<1>2. QED
  BY <1>1, PTL

\* What a mark that is lost comes from: the flag was not there.
NoMark == unmarked' => unmarked \/ ~AppFlagValid

\* The device on its own, or the network.
LEMMA DeviceKeeps ==
  ASSUME Good, Good', MarkSane, MarkSane', UNCHANGED host, NoTrick, NoMark
  PROVE  [Promise!Next]_(Promise!vars)
<1>1. Told' = Told
  BY DEF Told
<1>2. /\ Boots' = "unmarked" <=> unmarked'
      /\ Boots' = "loader" <=> ~AppFlagValid' /\ ~unmarked'
      /\ Boots' = "file" <=> AppFlagValid' /\ FileInFlash'
      /\ Boots' \in {"loader", "unmarked", "file", "other"}
  BY DEF Boots, MarkSane
<1>3. CASE Told = "ok"
  <2>1. InPlace /\ InPlace' /\ (AppFlagValid' => AppFlagValid)
    BY <1>1, <1>3, AtTheEnd, EndsInPlace, ToldIs DEF NoTrick, NoFlag
  <2>2. Boots' = Boots
    BY <1>2, <2>1, BootsIs DEF InPlace, MarkSane, NoMark
  <2>3. QED
    BY <1>1, <2>2 DEF Promise!vars
<1>4. CASE Told # "ok"
  <2>1. \/ Boots' = Boots
        \/ Boots \in {"loader", "unmarked"} /\ Boots' = "file"
        \/ Boots = "loader" /\ Boots' = "unmarked"
        \/ Boots \in {"file", "other"} /\ Boots' \in {"loader", "other"}
        \/ Boots = "unmarked" /\ Boots' = "loader"
    BY <1>2, BootsIs DEF NoTrick, NoMark, MarkSane
  <2>2. QED
    BY <1>1, <1>4, <2>1 DEF Promise!vars, Promise!Next, Promise!Commit, Promise!Miss,
                            Promise!Ruin
<1>5. QED
  BY <1>3, <1>4

\* The tool, or its user.
LEMMA ToolKeeps ==
  ASSUME Good, Good', MarkSane, NoteMark(FALSE), Tool \/ Rerun
  PROVE  [Promise!Next]_(Promise!vars)
<1>1. Boots' = Boots
  <2>1. UNCHANGED flash
    BY DEF Tool, Rerun, Inert, flashVars
  <2>2. (FileInFlash' <=> FileInFlash) /\ (AppFlagValid' <=> AppFlagValid)
    BY <2>1 DEF AppFlagValid, FileInFlash
  <2>3. unmarked' <=> unmarked
    BY <2>2 DEF NoteMark, MarkSane
  <2>4. QED
    BY <2>2, <2>3 DEF Boots
<1>2. host.step \in Steps \cup Ends \cup {"enter"}
  BY HostIs DEF Good
<1>3. CASE Rerun
  <2>1. Told' = "nothing" /\ Told # "ok"
    BY <1>3, ToldIs DEF Rerun, HostInit, Told
  <2>2. QED
    BY <1>1, <2>1 DEF Promise!vars, Promise!Next, Promise!StartOver
<1>4. CASE Tool
  <2>1. Told = "nothing"
    BY <1>4 DEF Tool, HostNext, EnterBoot, Ask, Hear, Good, HostSane, Steps, Told
  <2>2. Told' \in {"nothing", "ok", "failed"}
    BY DEF Told
  <2>3. Told' = "ok" => Boots' \in {"file", "unmarked"}
    BY EndsInPlace DEF InPlace, Boots
  <2>4. QED
    BY <1>1, <2>1, <2>2, <2>3 DEF Promise!vars, Promise!Next, Promise!TellOk, Promise!TellFailed
<1>5. QED
  BY <1>3, <1>4

-----------------------------------------------------------------------------
(* The promise.                                                            *)

KeepInv == SysInv /\ MarkSane /\ (copies = 0 => FlagGone)

LEMMA KeepInit == SysInit => KeepInv
BY InvInit, MarkInit, FlagInit DEF KeepInv

\* A checksum is answered with success where the flag is gone.
LEMMA DeliverMarks ==
  ASSUME HostSane, Channel, FlagGone, Deliver, NoteMark(ChecksumPasses)
  PROVE  NoMark
<1> SUFFICES ASSUME unmarked', ~unmarked PROVE ~AppFlagValid
  BY DEF NoMark
<1>1. host.waiting /\ rx = <<Asked>> /\ host.step \in Steps
  BY DEF Deliver, Channel, HostSane
<1>2. Asked.sid = "routine" /\ Asked.sub = <<"start_checksum">>
  <2>1. Head(rx) = Asked
    BY <1>1
  <2>2. ChecksumPasses
    BY DEF NoteMark
  <2>3. QED
    BY <2>1, <2>2 DEF ChecksumPasses, Asks
<1>3. host.step = "check"
  <2>1. <<"seed">>[1] # "start_checksum" /\ <<"erase_result">>[1] # "start_checksum"
    OBVIOUS
  <2>2. QED
    BY <1>1, <1>2, AskedIs DEF Steps, Message
<1>4. rx # <<>>
  BY <1>1
<1>5. QED
  BY <1>3, <1>4 DEF FlagGone, ToolGone

LEMMA KeepStep ==
  ASSUME WholeApplication, KeepInv, [SysNext]_sysVars, copies = 0, copies' = 0
  PROVE  FlagGone' /\ [Promise!Next]_(Promise!vars)
<1>1. Good /\ FlagGone /\ Good' /\ MarkSane /\ MarkSane'
  BY InvNext, MarkNext DEF KeepInv, SysInv
<1>2. CASE Deliver /\ NoteMark(ChecksumPasses)
  <2>1. FlagGone' /\ NoTrick
    BY <1>1, <1>2, DeliverGone DEF Good
  <2>2. NoMark
    BY <1>1, <1>2, DeliverMarks DEF Good
  <2>3. QED
    BY <1>1, <1>2, <2>1, <2>2, DeviceKeeps DEF Deliver
<1>3. CASE Others /\ NoteMark(FALSE)
  <2>1. NoMark
    BY <1>3 DEF NoteMark, NoMark
  <2>2. CASE Alone
    BY <1>1, <2>1, <2>2, AloneGone, DeviceKeeps DEF Alone
  <2>3. CASE Restart
    BY <1>1, <2>1, <2>3, RestartGone, DeviceKeeps DEF Restart
  <2>4. CASE Ignored \/ Lose
    BY <1>1, <2>1, <2>4, NetworkGone, DeviceKeeps DEF Ignored, Lose
  <2>5. CASE Tool
    BY <1>1, <1>3, <2>5, EnterGone, AskGone, HearGone, ToolKeeps DEF Tool, HostNext
  <2>6. CASE Rerun
    BY <1>1, <1>3, <2>6, RerunGone, ToolKeeps
  <2>7. CASE Copy
    BY <2>7 DEF Copy
  <2>8. CASE Arrive
    BY <1>1, <2>8 DEF Good, Arrive
  <2>9. QED
    BY <1>3, <2>2, <2>3, <2>4, <2>5, <2>6, <2>7, <2>8 DEF Others
<1>4. CASE UNCHANGED sysVars
  <2>1. UNCHANGED <<host, rx, tx, flash, erase, pc, ers, unmarked>>
    BY <1>4 DEF sysVars, netVars, vars, bootVars, taskVars, flashVars
  <2>2. FlagGone' /\ NoTrick /\ NoMark
    BY <1>1, <2>1, SameFlash, DeviceGoneStays, ToolGoneStays DEF FlagGone, NoMark
  <2>3. QED
    BY <1>1, <2>1, <2>2, DeviceKeeps
<1>5. QED
  BY <1>2, <1>3, <1>4 DEF SysNext

LEMMA KeepNext ==
  ASSUME WholeApplication
  PROVE  KeepInv /\ [SysNext]_sysVars => KeepInv'
<1> SUFFICES ASSUME KeepInv, [SysNext]_sysVars PROVE KeepInv'
  OBVIOUS
<1>1. SysInv' /\ MarkSane'
  BY InvNext, MarkNext DEF KeepInv
<1>2. copies' = 0 => copies = 0
  <2>1. copies' = copies \/ (copies \in Nat /\ copies' = copies + 1)
    BY DEF KeepInv, SysInv, SysNext, Others, Deliver, Alone, Restart, Ignored, Tool, Rerun,
           Lose, Copy, Arrive, sysVars, netVars
  <2>2. QED
    BY <2>1
<1>3. QED
  BY <1>1, <1>2, KeepStep DEF KeepInv

(***************************************************************************)
(* The promise of SafeUpdate, for every file that holds a whole            *)
(* application: on a network that copies no datagram, tool, network and    *)
(* device together only take steps the promise allows.  A device becomes   *)
(* bootable with the whole file only, and success is told of, and only of, *)
(* a device that runs the file from then on, or holds it whole without its *)
(* flag, whose write was lost and not reported, wherever power was lost,   *)
(* writes failed or scripts broke off (vci_prog, the service handlers,     *)
(* erase_routine_task, flash_write).  A device that runs the file from the *)
(* start is no subject of an update.                                       *)
(***************************************************************************)
THEOREM UpdateIsSafe ==
  ASSUME WholeApplication
  PROVE  SysSpec /\ Boots # "file" /\ [](copies = 0) => KeepsPromise
<1>1. SysInit /\ Boots # "file" => Promise!Init
  BY MarkInit, BootsIs DEF SysInit, HostInit, Told, Promise!Init
<1>2. KeepInv /\ copies = 0 /\ (copies = 0)' /\ [SysNext]_sysVars => [Promise!Next]_(Promise!vars)
  BY KeepStep
<1>3. KeepInv /\ [SysNext]_sysVars => KeepInv'
  BY KeepNext
<1>4. QED
  BY <1>1, <1>2, <1>3, KeepInit, PTL DEF SysSpec, KeepsPromise, Promise!Spec
=============================================================================
