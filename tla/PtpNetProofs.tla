---------------------------- MODULE PtpNetProofs ----------------------------
(***************************************************************************)
(* Proofs about the receive queues of PtpNet, for every size of the rings  *)
(* and any number of datagrams, as long as no task is switched away from   *)
(* between the two stores that reset an index (~Halfway).                  *)
(*                                                                         *)
(* RingInv, for each queue: the items from the read index on are the       *)
(* datagrams accepted and not yet taken, in order (Items); an rx task that *)
(* is filling an item has room for it (Filling); what the PTP task has     *)
(* copied is the first of them (Copying); and emptying a ring moves the    *)
(* read index past whole datagrams (Emptying).                             *)
(***************************************************************************)
EXTENDS PtpNet, SequenceTheorems, TLAPS

Small == 0 .. Size - 1
Indices ==
  /\ w \in [Queues -> Small]
  /\ r \in [Queues -> Small]
  /\ \A q \in Queues : wpc[q] # "wrap"
  /\ rpc # "wrap"
  /\ mark.idx \in Small

Items(q) ==
  /\ sent[q] = taken[q] + Length(q)
  /\ \A p \in 0 .. Length(q) - 1 :
       LET item == slot[q][Step(r[q], p)] IN
       item.payload = taken[q] + 1 + p /\ item.stamp = taken[q] + 1 + p

Filling(q) ==
  /\ wpc[q] \in {"payload", "stamp", "advance"} => Length(q) < Size - 1
  /\ wpc[q] \in {"stamp", "advance"} => slot[q][w[q]].payload = sent[q] + 1
  /\ wpc[q] = "advance" => slot[q][w[q]].stamp = sent[q] + 1

Copying ==
  /\ rpc \in {"stamp", "payload", "advance"} => Length(port) > 0
  /\ rpc \in {"payload", "advance"} => copy.stamp = taken[port] + 1
  /\ rpc = "advance" => copy.payload = taken[port] + 1
  /\ rpc = "general" => port = "general"

Emptying ==
  rpc = "empty" =>
    /\ mark.upto >= taken[port] /\ mark.upto <= sent[port]
    /\ mark.idx = Step(r[port], mark.upto - taken[port])

Selecting == rpc = "selected" => \E q \in Queues : Length(q) > 0

RingInv ==
  /\ NetTypeOK /\ Indices
  /\ \A q \in Queues : Items(q) /\ Filling(q)
  /\ Copying /\ Emptying /\ Selecting

-----------------------------------------------------------------------------
(* Arithmetic of the indices.                                              *)

\* Stepping stays inside the ring.
LEMMA StepFacts ==
  ASSUME NEW i \in Small, NEW p \in Small
  PROVE  /\ Step(i, p) \in Small
         /\ Step(i, 0) = i
BY SizeAssumption DEF Small, Step

\* To the other tasks an increment is then a step of one.
LEMMA BumpFacts ==
  ASSUME ~Halfway, NEW i \in Small
  PROVE  /\ Bump(i) \in Small
         /\ Bump(i) = Step(i, 1)
         /\ ~Overrun(Bump(i))
BY SizeAssumption DEF Small, Step, Bump, Overrun

\* rb_len counts the steps from the read index to the write index, and
\* rb_is_full says when it has reached Size - 1.
LEMMA LengthFacts ==
  ASSUME NetTypeOK, Indices, NEW q \in Queues
  PROVE  /\ Length(q) \in Small
         /\ Step(r[q], Length(q)) = w[q]
         /\ \A p \in 0 .. Length(q) - 1 : Step(r[q], p) # w[q]
         /\ IsEmpty(q) <=> Length(q) = 0
         /\ ~IsFull(q) => Length(q) < Size - 1
<1>1. w[q] \in Small /\ r[q] \in Small
  BY DEF Indices
<1>2. QED
  BY <1>1, SizeAssumption DEF Small, Length, Step, IsEmpty, IsFull

\* Each increment is then one step of its task.
LEMMA OneRxStore ==
  ASSUME NetTypeOK, Indices, ~Halfway, NEW q \in Queues, RxAdvance(q)
  PROVE  /\ wpc[q] = "advance" /\ wpc' = [wpc EXCEPT ![q] = "release"]
         /\ w' = [w EXCEPT ![q] = Bump(w[q])]
         /\ sent' = [sent EXCEPT ![q] = @ + 1]
         /\ UNCHANGED <<slot, Reader>>
<1>1. /\ wpc[q] = "advance" /\ UNCHANGED <<slot, Reader>>
      /\ w' = [w EXCEPT ![q] = Bump(w[q])]
      /\ sent' = [sent EXCEPT ![q] = @ + 1]
      /\ wpc' = [wpc EXCEPT ![q] = IF Overrun(w'[q]) THEN "wrap" ELSE "release"]
  BY DEF RxAdvance, Indices
<1>2. w'[q] = Bump(w[q]) /\ w[q] \in Small
  BY <1>1 DEF Indices
<1>3. ~Overrun(w'[q])
  BY <1>2, BumpFacts
<1>4. QED
  BY <1>1, <1>3

LEMMA OneReadStore ==
  ASSUME NetTypeOK, Indices, ~Halfway, ReadAdvance
  PROVE  /\ rpc = "advance" /\ rpc' = "idle"
         /\ r' = [r EXCEPT ![port] = Bump(r[port])]
         /\ taken' = [taken EXCEPT ![port] = @ + 1]
         /\ got' = <<port, copy.payload, copy.stamp>> /\ copy' = Blank
         /\ UNCHANGED <<Writer, port, mark>>
<1>1. /\ rpc = "advance" /\ UNCHANGED <<Writer, port, mark>>
      /\ r' = [r EXCEPT ![port] = Bump(r[port])]
      /\ taken' = [taken EXCEPT ![port] = @ + 1]
      /\ got' = <<port, copy.payload, copy.stamp>> /\ copy' = Blank
      /\ rpc' = IF Overrun(r'[port]) THEN "wrap" ELSE "idle"
  BY DEF ReadAdvance, Indices
<1>2. r'[port] = Bump(r[port]) /\ r[port] \in Small
  BY <1>1 DEF NetTypeOK, Indices
<1>3. ~Overrun(r'[port])
  BY <1>2, BumpFacts
<1>4. QED
  BY <1>1, <1>3

\* Only an index that moves changes the length of a ring.
LEMMA LengthMoves ==
  ASSUME NetTypeOK, Indices, ~Halfway, NEW q \in Queues
  PROVE  /\ w'[q] = w[q] /\ r'[q] = r[q] => Length(q)' = Length(q)
         /\ w'[q] = Bump(w[q]) /\ r'[q] = r[q] /\ Length(q) < Size - 1
              => Length(q)' = Length(q) + 1
         /\ \A n \in 0 .. Length(q) : w'[q] = w[q] /\ r'[q] = Step(r[q], n)
              => Length(q)' = Length(q) - n
<1>1. w[q] \in Small /\ r[q] \in Small
  BY DEF Indices
<1>2. QED
  BY <1>1, SizeAssumption DEF Small, Length, Step, Bump

-----------------------------------------------------------------------------
(* Types and indices.                                                      *)

Typed == NetTypeOK /\ Indices

\* Every item that is written is an item of its ring.
LEMMA SlotTyped ==
  ASSUME slot \in [Queues -> [0 .. Size -> ItemType]],
         NEW q \in Queues, NEW i \in 0 .. Size, NEW n \in Nat
  PROVE  /\ [slot EXCEPT ![q][i].payload = n]
               \in [Queues -> [0 .. Size -> ItemType]]
         /\ [slot EXCEPT ![q][i].stamp = n]
               \in [Queues -> [0 .. Size -> ItemType]]
<1>1. slot[q] \in [0 .. Size -> ItemType] /\ slot[q][i] \in ItemType
  OBVIOUS
<1>2. /\ [slot[q][i] EXCEPT !.payload = n] \in ItemType
      /\ [slot[q][i] EXCEPT !.stamp = n] \in ItemType
  BY <1>1 DEF ItemType
<1>3. /\ [slot[q] EXCEPT ![i].payload = n] \in [0 .. Size -> ItemType]
      /\ [slot[q] EXCEPT ![i].stamp = n] \in [0 .. Size -> ItemType]
  BY <1>1, <1>2
<1>4. QED
  BY <1>3

LEMMA TypedInit == ~Halfway /\ NetInit => Typed
BY SizeAssumption DEF NetInit, Typed, NetTypeOK, Indices, Small, Blank, Queues, ItemType

LEMMA TypedRx ==
  ASSUME Typed, ~Halfway, NEW q \in Queues, RxTask(q)
  PROVE  Typed'
<1> USE SizeAssumption
<1>1. CASE RxAccept(q) \/ RxRefuse(q) \/ RxRelease(q)
  BY <1>1 DEF RxAccept, RxRefuse, RxRelease, Goto, Reader, Typed, NetTypeOK, Indices
<1>2. CASE RxPayload(q)
  <2>. /\ slot \in [Queues -> [0 .. Size -> ItemType]]
       /\ w[q] \in 0 .. Size /\ sent[q] + 1 \in Nat
    BY DEF Typed, NetTypeOK
  <2>. slot' = [slot EXCEPT ![q][w[q]].payload = sent[q] + 1]
    BY <1>2 DEF RxPayload
  <2>1. slot' \in [Queues -> [0 .. Size -> ItemType]]
    BY SlotTyped
  <2>2. UNCHANGED <<w, r, rpc, port, copy, mark, sent, taken>>
    BY <1>2 DEF RxPayload, Reader
  <2>3. wpc' = [wpc EXCEPT ![q] = "stamp"]
    BY <1>2 DEF RxPayload, Goto
  <2>4. QED
    BY <2>1, <2>2, <2>3 DEF Typed, NetTypeOK, Indices
<1>3. CASE RxStamp(q)
  <2>. /\ slot \in [Queues -> [0 .. Size -> ItemType]]
       /\ w[q] \in 0 .. Size /\ sent[q] + 1 \in Nat
    BY DEF Typed, NetTypeOK
  <2>. slot' = [slot EXCEPT ![q][w[q]].stamp = sent[q] + 1]
    BY <1>3 DEF RxStamp
  <2>1. slot' \in [Queues -> [0 .. Size -> ItemType]]
    BY SlotTyped
  <2>2. UNCHANGED <<w, r, rpc, port, copy, mark, sent, taken>>
    BY <1>3 DEF RxStamp, Reader
  <2>3. wpc' = [wpc EXCEPT ![q] = "advance"]
    BY <1>3 DEF RxStamp, Goto
  <2>4. QED
    BY <2>1, <2>2, <2>3 DEF Typed, NetTypeOK, Indices
<1>4. CASE RxAdvance(q)
  <2>1. Bump(w[q]) \in Small /\ ~Overrun(Bump(w[q]))
    BY BumpFacts DEF Typed, Indices
  <2>2. UNCHANGED <<r, slot, rpc, port, copy, mark, taken>>
    BY <1>4, OneRxStore DEF Typed, Reader
  <2>3. /\ wpc' = [wpc EXCEPT ![q] = "release"]
        /\ w' = [w EXCEPT ![q] = Bump(w[q])]
        /\ sent' = [sent EXCEPT ![q] = @ + 1]
    BY <1>4, OneRxStore DEF Typed
  <2>4. w' \in [Queues -> Small] /\ w' \in [Queues -> 0 .. Size]
    BY <2>1, <2>3 DEF Typed, Indices, Small
  <2>5. sent' \in [Queues -> Nat]
    BY <2>3 DEF Typed, NetTypeOK
  <2>6. QED
    BY <2>2, <2>3, <2>4, <2>5 DEF Typed, NetTypeOK, Indices
<1>5. QED
  BY <1>1, <1>2, <1>3, <1>4 DEF RxTask

LEMMA TypedPtp ==
  ASSUME Typed, ~Halfway, PtpTask
  PROVE  Typed'
<1> USE SizeAssumption DEF Writer
<1>1. CASE netSelect \/ netRecvEvent \/ netRecvGeneral
  BY <1>1 DEF netSelect, netRecvEvent, netRecvGeneral, Typed, NetTypeOK, Indices, Queues
<1>2. CASE CopyStamp
  <2>1. slot[port][r[port]] \in ItemType
    BY DEF Typed, NetTypeOK
  <2>2. QED
    BY <1>2, <2>1 DEF CopyStamp, Typed, NetTypeOK, Indices, ItemType
<1>3. CASE CopyPayload
  <2>1. slot[port][r[port]] \in ItemType
    BY DEF Typed, NetTypeOK
  <2>2. QED
    BY <1>3, <2>1 DEF CopyPayload, Typed, NetTypeOK, Indices, ItemType
<1>4. CASE ReadAdvance
  <2>1. Bump(r[port]) \in Small /\ ~Overrun(Bump(r[port]))
    BY BumpFacts DEF Typed, NetTypeOK, Indices
  <2>2. /\ r' = [r EXCEPT ![port] = Bump(r[port])]
        /\ taken' = [taken EXCEPT ![port] = @ + 1]
        /\ rpc' = "idle"
        /\ copy' \in ItemType
        /\ UNCHANGED <<w, slot, wpc, sent, port, mark>>
    BY <1>4, OneReadStore DEF Typed, Blank, ItemType
  <2>3. QED
    BY <2>1, <2>2 DEF Typed, NetTypeOK, Indices, Small
<1>5. CASE netEmptyEventQ \/ netEmptyGeneralQ
  BY <1>5 DEF netEmptyEventQ, netEmptyGeneralQ, Typed, NetTypeOK, Indices, Queues, Small
<1>6. CASE netQEmpty
  BY <1>6 DEF netQEmpty, Typed, NetTypeOK, Indices, Small
<1>7. QED
  BY <1>1, <1>2, <1>3, <1>4, <1>5, <1>6 DEF PtpTask, Receiving

\* Every step keeps the types, and the indices inside the rings.
LEMMA TypedStep == ~Halfway /\ Typed /\ [NetNext]_netVars => Typed'
<1> SUFFICES ASSUME ~Halfway, Typed, [NetNext]_netVars PROVE Typed'
  OBVIOUS
<1>1. CASE PtpTask
  BY <1>1, TypedPtp
<1>2. CASE \E q \in Queues : RxTask(q)
  BY <1>2, TypedRx
<1>3. CASE UNCHANGED netVars
  BY <1>3 DEF netVars, Typed, NetTypeOK, Indices
<1>4. QED
  BY <1>1, <1>2, <1>3 DEF NetNext

\* Every variable keeps its type, and no index is ever Size.
THEOREM NetTypeCorrect == ASSUME ~Halfway PROVE NetSpec => []NetTypeOK
<1>1. NetInit => Typed
  BY TypedInit
<1>2. Typed /\ [NetNext]_netVars => Typed'
  BY TypedStep
<1>3. Typed => NetTypeOK
  BY DEF Typed
<1>4. QED
  BY <1>1, <1>2, <1>3, PTL DEF NetSpec

-----------------------------------------------------------------------------
(* The rings hold what was accepted and not yet taken.                     *)

\* A step that leaves a ring, its items and its counts alone, and starts no
\* new item, leaves what the invariant says of it.
LEMMA Untouched ==
  ASSUME Typed, ~Halfway, NEW q \in Queues, Items(q), Filling(q),
         w'[q] = w[q], r'[q] = r[q], slot'[q] = slot[q],
         sent'[q] = sent[q], taken'[q] = taken[q],
         wpc'[q] \in {wpc[q], "recv", "release"}
  PROVE  Items(q)' /\ Filling(q)' /\ Length(q)' = Length(q)
<1>1. Length(q)' = Length(q)
  BY DEF Length
<1>2. \A p \in 0 .. Length(q) - 1 : Step(r[q], p)' = Step(r[q], p)
  BY DEF Step
<1>3. Items(q)'
  BY <1>1, <1>2 DEF Items
<1>4. Filling(q)'
  BY <1>1 DEF Filling
<1>5. QED
  BY <1>1, <1>3, <1>4

\* The steps of an rx task, for its own ring.
LEMMA RingRxOwn ==
  ASSUME Typed, ~Halfway, NEW q \in Queues, Items(q), Filling(q), RxTask(q)
  PROVE  Items(q)' /\ Filling(q)' /\ Length(q)' >= Length(q)
<1> USE SizeAssumption
<1>1. /\ Length(q) \in Small /\ Step(r[q], Length(q)) = w[q]
      /\ \A p \in 0 .. Length(q) - 1 : Step(r[q], p) # w[q]
      /\ ~IsFull(q) => Length(q) < Size - 1
  BY LengthFacts DEF Typed
<1>2. /\ w[q] \in Small /\ r[q] \in Small /\ wpc[q] # "wrap"
      /\ sent[q] \in Nat /\ taken[q] \in Nat
      /\ slot[q] \in [0 .. Size -> ItemType]
  BY DEF Typed, NetTypeOK, Indices
<1>3. UNCHANGED <<r, taken>>
  BY DEF RxTask, RxAccept, RxRefuse, RxPayload, RxStamp, RxAdvance,
         RxRelease, Reader
<1>4. CASE RxRefuse(q) \/ RxRelease(q)
  <2>1. UNCHANGED <<w, slot, sent>> /\ wpc'[q] \in {"recv", "release"}
    BY <1>4 DEF RxRefuse, RxRelease, Goto, Typed, NetTypeOK
  <2>2. QED
    BY <1>1, <1>3, <2>1, Untouched DEF Small
<1>5. CASE RxAccept(q)
  <2>1. UNCHANGED <<w, slot, sent>> /\ wpc'[q] = "payload" /\ ~IsFull(q)
    BY <1>5 DEF RxAccept, Goto, Typed, NetTypeOK
  <2>2. Length(q)' = Length(q)
    BY <1>3, <2>1 DEF Length
  <2>3. Items(q)'
    BY <1>3, <2>1, <2>2 DEF Items, Step
  <2>4. QED
    BY <1>1, <2>1, <2>2, <2>3 DEF Filling, Small
<1>6. CASE RxPayload(q)
  <2>1. /\ UNCHANGED <<w, sent>> /\ wpc[q] = "payload" /\ wpc'[q] = "stamp"
        /\ slot' = [slot EXCEPT ![q][w[q]].payload = sent[q] + 1]
    BY <1>6 DEF RxPayload, Goto, Typed, NetTypeOK
  <2>2. /\ slot'[q][w[q]].payload = sent[q] + 1
        /\ \A i \in Small : i # w[q] => slot'[q][i] = slot[q][i]
    BY <1>2, <2>1 DEF Typed, NetTypeOK, Small, ItemType
  <2>3. Length(q)' = Length(q)
    BY <1>3, <2>1 DEF Length
  <2>4. \A p \in 0 .. Length(q) - 1 :
          Step(r[q], p) \in Small /\ Step(r[q], p) # w[q]
    BY <1>1, <1>2 DEF Small, Step
  <2>5. Items(q)'
    BY <1>3, <2>1, <2>2, <2>3, <2>4 DEF Items, Step
  <2>6. Filling(q)'
    BY <2>1, <2>2, <2>3 DEF Filling
  <2>7. QED
    BY <1>1, <2>3, <2>5, <2>6 DEF Small
<1>7. CASE RxStamp(q)
  <2>1. /\ UNCHANGED <<w, sent>> /\ wpc[q] = "stamp" /\ wpc'[q] = "advance"
        /\ slot' = [slot EXCEPT ![q][w[q]].stamp = sent[q] + 1]
    BY <1>7 DEF RxStamp, Goto, Typed, NetTypeOK
  <2>2. /\ slot'[q][w[q]].stamp = sent[q] + 1
        /\ slot'[q][w[q]].payload = slot[q][w[q]].payload
        /\ \A i \in Small : i # w[q] => slot'[q][i] = slot[q][i]
    BY <1>2, <2>1 DEF Typed, NetTypeOK, Small, ItemType
  <2>3. Length(q)' = Length(q)
    BY <1>3, <2>1 DEF Length
  <2>4. \A p \in 0 .. Length(q) - 1 :
          Step(r[q], p) \in Small /\ Step(r[q], p) # w[q]
    BY <1>1, <1>2 DEF Small, Step
  <2>5. Items(q)'
    BY <1>3, <2>1, <2>2, <2>3, <2>4 DEF Items, Step
  <2>6. Filling(q)'
    BY <2>1, <2>2, <2>3 DEF Filling
  <2>7. QED
    BY <1>1, <2>3, <2>5, <2>6 DEF Small
<1>8. CASE RxAdvance(q)
  <2>1. /\ wpc' = [wpc EXCEPT ![q] = "release"]
        /\ w' = [w EXCEPT ![q] = Bump(w[q])]
        /\ sent' = [sent EXCEPT ![q] = @ + 1]
        /\ UNCHANGED slot /\ wpc[q] = "advance"
    BY <1>8, OneRxStore DEF Typed
  <2>2. /\ UNCHANGED slot /\ wpc[q] = "advance" /\ wpc'[q] = "release"
        /\ w'[q] = Bump(w[q]) /\ sent'[q] = sent[q] + 1
    BY <2>1 DEF Typed, NetTypeOK
  <2>3. Length(q)' = Length(q) + 1
    BY <1>3, <2>2, LengthMoves DEF Typed, Filling
  <2>4. /\ slot[q][Step(r[q], Length(q))].payload = taken[q] + 1 + Length(q)
        /\ slot[q][Step(r[q], Length(q))].stamp = taken[q] + 1 + Length(q)
    BY <1>1, <1>2, <2>2 DEF Filling, Items, Small
  <2>5. \A p \in 0 .. Length(q) : Step(r[q], p)' = Step(r[q], p)
    BY <1>3 DEF Step
  <2>6. \A p \in 0 .. Length(q) :
          /\ slot[q][Step(r[q], p)].payload = taken[q] + 1 + p
          /\ slot[q][Step(r[q], p)].stamp = taken[q] + 1 + p
    BY <1>1, <2>4 DEF Items, Small
  <2>7. sent'[q] = taken[q] + (Length(q) + 1)
    BY <1>1, <1>2, <2>2 DEF Items, Small
  <2>8. 0 .. Length(q)' - 1 = 0 .. Length(q)
    BY <1>1, <2>3 DEF Small
  <2>9. Items(q)'
    BY <1>3, <2>2, <2>3, <2>5, <2>6, <2>7, <2>8 DEF Items
  <2>10. QED
    BY <1>1, <2>2, <2>3, <2>9 DEF Filling, Small
<1>9. QED
  BY <1>4, <1>5, <1>6, <1>7, <1>8 DEF RxTask

\* The other ring is not touched, and the PTP task sees a ring only grow.
LEMMA RingRx ==
  ASSUME RingInv, Typed', ~Halfway, NEW q \in Queues, RxTask(q)
  PROVE  RingInv'
<1>1. Typed /\ \A p \in Queues : Items(p) /\ Filling(p)
  BY DEF RingInv, Typed
<1>2. UNCHANGED <<r, rpc, port, copy, mark, taken>>
  BY DEF RxTask, RxAccept, RxRefuse, RxPayload, RxStamp, RxAdvance,
         RxRelease, Reader
<1>3. ASSUME NEW p \in Queues, p # q
      PROVE  /\ w'[p] = w[p] /\ slot'[p] = slot[p] /\ sent'[p] = sent[p]
             /\ wpc'[p] = wpc[p]
  <2>1. CASE RxAdvance(q)
    <3>1. /\ wpc' = [wpc EXCEPT ![q] = "release"]
          /\ w' = [w EXCEPT ![q] = Bump(w[q])]
          /\ sent' = [sent EXCEPT ![q] = @ + 1]
          /\ UNCHANGED slot
      BY <1>1, <2>1, OneRxStore DEF Typed
    <3>2. QED
      BY <1>1, <1>3, <3>1 DEF Typed, NetTypeOK
  <2>2. CASE RxTask(q) /\ ~RxAdvance(q)
    BY <1>1, <1>3, <2>2 DEF RxTask, RxAccept, RxRefuse, RxPayload, RxStamp,
       RxRelease, Goto, Typed, NetTypeOK
  <2>3. QED
    BY <2>1, <2>2
<1>4. \A p \in Queues : Items(p)' /\ Filling(p)' /\ Length(p)' >= Length(p)
  <2> SUFFICES ASSUME NEW p \in Queues
               PROVE  Items(p)' /\ Filling(p)' /\ Length(p)' >= Length(p)
    OBVIOUS
  <2>1. CASE p = q
    BY <1>1, <2>1, RingRxOwn
  <2>2. CASE p # q
    <3>1. Items(p)' /\ Filling(p)' /\ Length(p)' = Length(p)
      BY <1>1, <1>2, <1>3, <2>2, Untouched
    <3>2. Length(p) \in Small
      BY <1>1, LengthFacts DEF Typed
    <3>3. QED
      BY <3>1, <3>2, SizeAssumption DEF Small
  <2>3. QED
    BY <2>1, <2>2
<1>5. \A p \in Queues :
        /\ Length(p) \in Small /\ Length(p)' \in Small
        /\ taken[p] \in Nat /\ sent[p] \in Nat /\ sent'[p] \in Nat
  <2> SUFFICES ASSUME NEW p \in Queues
               PROVE  /\ Length(p) \in Small /\ Length(p)' \in Small
                      /\ taken[p] \in Nat /\ sent[p] \in Nat /\ sent'[p] \in Nat
    OBVIOUS
  <2>1. /\ taken[p] \in Nat /\ sent[p] \in Nat /\ sent'[p] \in Nat
        /\ w'[p] \in Small /\ r'[p] \in Small
    BY <1>1 DEF Typed, NetTypeOK, Indices
  <2>2. Length(p)' \in Small
    BY <2>1, SizeAssumption DEF Length, Small
  <2>3. Length(p) \in Small
    BY <1>1, LengthFacts DEF Typed
  <2>4. QED
    BY <2>1, <2>2, <2>3
<1>6. \A p \in Queues : sent'[p] >= sent[p]
  BY <1>1, <1>2, <1>4, <1>5, SizeAssumption DEF Items, Small
<1>7. Copying'
  <2>1. port \in Queues
    BY <1>1 DEF Typed, NetTypeOK
  <2>2. QED
    BY <1>2, <1>4, <1>5, <2>1, SizeAssumption DEF RingInv, Copying, Small
<1>8. Emptying'
  <2>1. port \in Queues
    BY <1>1 DEF Typed, NetTypeOK
  <2>2. mark \in [idx : 0 .. Size, upto : Nat]
    BY <1>1 DEF Typed, NetTypeOK
  <2>3. QED
    BY <1>2, <1>5, <1>6, <2>1, <2>2 DEF RingInv, Emptying, Step
<1>9. Selecting'
  BY <1>2, <1>4, <1>5, SizeAssumption DEF RingInv, Selecting, Small
<1>10. QED
  BY <1>4, <1>7, <1>8, <1>9 DEF RingInv, Typed

\* A read index that moves n items on leaves the items behind them waiting.
LEMMA Shift ==
  ASSUME Typed, ~Halfway, NEW q \in Queues, Items(q), Filling(q),
         NEW n \in 0 .. Length(q),
         w'[q] = w[q], slot'[q] = slot[q], sent'[q] = sent[q],
         wpc'[q] = wpc[q], r'[q] = Step(r[q], n), taken'[q] = taken[q] + n
  PROVE  Items(q)' /\ Filling(q)' /\ Length(q)' = Length(q) - n
<1> USE SizeAssumption
<1>1. /\ Length(q) \in Small /\ r[q] \in Small
      /\ sent[q] \in Nat /\ taken[q] \in Nat
  BY LengthFacts DEF Typed, NetTypeOK, Indices
<1>2. n \in Small /\ n \in Nat /\ n <= Length(q)
  BY <1>1 DEF Small
<1>3. Length(q)' = Length(q) - n
  BY LengthMoves DEF Typed
<1>4. ASSUME NEW p \in 0 .. (Length(q) - n) - 1
      PROVE  /\ n + p \in 0 .. Length(q) - 1
             /\ Step(r'[q], p) = Step(r[q], n + p)
  <2>. Length(q) \in Nat /\ Length(q) < Size
    BY <1>1 DEF Small
  <2>1. p \in Small /\ n + p \in 0 .. Length(q) - 1 /\ n + p < Size
    BY <1>2 DEF Small
  <2>2. Step(Step(r[q], n), p) = Step(r[q], n + p)
    BY <1>1, <1>2, <2>1 DEF Step, Small
  <2>3. QED
    BY <2>1, <2>2
<1>5. \A p \in 0 .. (Length(q) - n) - 1 :
        LET item == slot[q][Step(r'[q], p)] IN
        /\ item.payload = taken[q] + 1 + (n + p)
        /\ item.stamp = taken[q] + 1 + (n + p)
  BY <1>4 DEF Items
<1>6. \A p \in 0 .. (Length(q) - n) - 1 :
        taken[q] + 1 + (n + p) = taken'[q] + 1 + p
  BY <1>1, <1>2
<1>7. \A p \in 0 .. (Length(q) - n) - 1 : Step(r[q], p)' = Step(r'[q], p)
  BY DEF Step
<1>8. sent'[q] = taken'[q] + (Length(q) - n)
  BY <1>1, <1>2 DEF Items, Small
<1>9. Items(q)'
  BY <1>3, <1>5, <1>6, <1>7, <1>8 DEF Items
<1>10. Filling(q)'
  BY <1>1, <1>2, <1>3 DEF Filling, Small
<1>11. QED
  BY <1>3, <1>9, <1>10

\* A step of the PTP task that moves no read index.
LEMMA RingQuiet ==
  ASSUME RingInv, Typed', ~Halfway, UNCHANGED <<Writer, r, taken>>,
         Copying', Emptying', Selecting'
  PROVE  RingInv'
<1>1. ASSUME NEW q \in Queues
      PROVE  Items(q)' /\ Filling(q)'
  <2>1. Typed /\ Items(q) /\ Filling(q)
    BY DEF RingInv, Typed
  <2>2. QED
    BY <2>1, Untouched DEF Writer
<1>2. QED
  BY <1>1 DEF RingInv, Typed

LEMMA RingPtp ==
  ASSUME RingInv, Typed', ~Halfway, PtpTask
  PROVE  RingInv'
<1> USE SizeAssumption
<1>1. Typed /\ port \in Queues /\ \A q \in Queues : Items(q) /\ Filling(q)
  BY DEF RingInv, Typed, NetTypeOK
<1>2. /\ mark \in [idx : 0 .. Size, upto : Nat]
      /\ copy \in ItemType
      /\ r \in [Queues -> Small] /\ w \in [Queues -> Small]
      /\ taken \in [Queues -> Nat] /\ sent \in [Queues -> Nat]
  BY <1>1 DEF Typed, NetTypeOK, Indices
<1>3. \A q \in Queues :
        /\ Length(q) \in Small /\ Step(r[q], Length(q)) = w[q]
        /\ IsEmpty(q) <=> Length(q) = 0
  BY <1>1, LengthFacts DEF Typed
<1>4. CASE netSelect
  <2>1. UNCHANGED <<Writer, r, taken>> /\ rpc' = "selected"
    BY <1>4 DEF netSelect
  <2>2. \E q \in Queues : Length(q)' > 0
    BY <1>3, <1>4 DEF netSelect, Small, Length, Writer
  <2>3. QED
    BY <2>1, <2>2, RingQuiet DEF Copying, Emptying, Selecting
<1>5. CASE netRecvEvent \/ netRecvGeneral
  <2>1. /\ UNCHANGED <<Writer, r, taken>>
        /\ rpc' \in {"idle", "general", "stamp"}
        /\ rpc' = "general" => port' = "general"
    BY <1>5 DEF netRecvEvent, netRecvGeneral
  <2>2. rpc' = "stamp" => Length(port') > 0
    <3>1. rpc' = "stamp" => ~IsEmpty(port') /\ port' \in Queues
      <4>1. CASE netRecvEvent
        BY <4>1 DEF netRecvEvent, Queues
      <4>2. CASE netRecvGeneral
        <5>1. port = "general"
          BY <4>2 DEF netRecvGeneral, RingInv, Copying
        <5>2. QED
          BY <4>2, <5>1 DEF netRecvGeneral, Queues
      <4>3. QED
        BY <1>5, <4>1, <4>2
    <3>2. QED
      BY <1>3, <3>1 DEF Small
  <2>3. rpc' = "stamp" => Length(port)' > 0
    BY <2>1, <2>2 DEF Length, Writer
  <2>4. QED
    BY <2>1, <2>3, RingQuiet DEF Copying, Emptying, Selecting
<1>6. CASE CopyStamp \/ CopyPayload
  <2>1. /\ UNCHANGED <<Writer, r, taken, port>> /\ rpc \in {"stamp", "payload"}
        /\ rpc' \in {"payload", "advance"}
    BY <1>6 DEF CopyStamp, CopyPayload
  <2>2. /\ slot[port][r[port]].payload = taken[port] + 1
        /\ slot[port][r[port]].stamp = taken[port] + 1
    <3>1. Length(port) > 0 /\ Length(port) \in Small /\ taken[port] \in Nat
      BY <1>1, <1>2, <1>3, <2>1 DEF RingInv, Copying
    <3>2. 0 \in 0 .. Length(port) - 1 /\ Step(r[port], 0) = r[port]
      BY <1>1, <1>2, <3>1 DEF Small, Step
    <3>3. /\ slot[port][Step(r[port], 0)].payload = taken[port] + 1 + 0
          /\ slot[port][Step(r[port], 0)].stamp = taken[port] + 1 + 0
      BY <1>1, <3>2 DEF Items
    <3>4. QED
      BY <3>1, <3>2, <3>3
  <2>3. /\ copy'.stamp = taken[port] + 1
        /\ rpc' = "advance" => copy'.payload = taken[port] + 1
    BY <1>2, <1>6, <2>2 DEF CopyStamp, CopyPayload, ItemType, RingInv, Copying
  <2>4. Length(port)' > 0
    BY <1>1, <2>1 DEF RingInv, Copying, Length, Writer
  <2>5. QED
    BY <2>1, <2>3, <2>4, RingQuiet DEF Copying, Emptying, Selecting
<1>7. CASE ReadAdvance
  <2>1. Bump(r[port]) = Step(r[port], 1)
    BY <1>1, <1>2, BumpFacts
  <2>2. /\ UNCHANGED <<Writer, port>> /\ rpc = "advance" /\ rpc' = "idle"
        /\ r' = [r EXCEPT ![port] = Step(r[port], 1)]
        /\ taken' = [taken EXCEPT ![port] = taken[port] + 1]
    BY <1>1, <1>7, <2>1, OneReadStore DEF Typed
  <2>3. ASSUME NEW q \in Queues PROVE Items(q)' /\ Filling(q)'
    <3>1. CASE q = port
      <4>1. 1 \in 0 .. Length(q)
        BY <1>1, <1>3, <2>2, <3>1 DEF RingInv, Copying, Small
      <4>2. r'[q] = Step(r[q], 1) /\ taken'[q] = taken[q] + 1
        BY <1>2, <2>2, <3>1
      <4>3. QED
        BY <1>1, <2>2, <4>1, <4>2, Shift DEF Writer
    <3>2. CASE q # port
      <4>1. r'[q] = r[q] /\ taken'[q] = taken[q]
        BY <1>2, <2>2, <3>2
      <4>2. QED
        BY <1>1, <2>2, <4>1, Untouched DEF Writer
    <3>3. QED
      BY <3>1, <3>2
  <2>4. QED
    BY <2>2, <2>3 DEF RingInv, Typed, Copying, Emptying, Selecting
<1>8. CASE netEmptyEventQ \/ netEmptyGeneralQ
  <2>1. /\ UNCHANGED <<Writer, r, taken>> /\ rpc' = "empty" /\ port' \in Queues
        /\ mark' = [idx |-> w[port'], upto |-> sent[port']]
    BY <1>8 DEF netEmptyEventQ, netEmptyGeneralQ, Queues
  <2>2. /\ sent[port'] = taken[port'] + Length(port')
        /\ Step(r[port'], Length(port')) = w[port']
        /\ Length(port') \in Small
        /\ taken[port'] \in Nat /\ sent[port'] \in Nat
    BY <1>1, <1>2, <1>3, <2>1 DEF Items
  <2>3. sent[port'] - taken[port'] = Length(port') /\ sent[port'] >= taken[port']
    BY <2>2 DEF Small
  <2>4. Emptying'
    BY <2>1, <2>2, <2>3 DEF Emptying, Step, Writer
  <2>5. QED
    BY <2>1, <2>4, RingQuiet DEF Copying, Selecting
<1>9. CASE netQEmpty
  <2>1. /\ UNCHANGED <<Writer, port>> /\ rpc = "empty" /\ rpc' \in {"next", "idle"}
        /\ r' = [r EXCEPT ![port] = mark.idx]
        /\ taken' = [taken EXCEPT ![port] = mark.upto]
    BY <1>9 DEF netQEmpty
  <2>2. mark.upto - taken[port] \in 0 .. Length(port)
    BY <1>1, <1>2, <1>3, <2>1 DEF RingInv, Emptying, Items, Small
  <2>3. ASSUME NEW q \in Queues PROVE Items(q)' /\ Filling(q)'
    <3>1. CASE q = port
      <4>1. /\ r'[q] = Step(r[q], mark.upto - taken[q])
            /\ taken'[q] = taken[q] + (mark.upto - taken[q])
        BY <1>2, <2>1, <3>1 DEF RingInv, Emptying
      <4>2. QED
        BY <1>1, <2>1, <2>2, <3>1, <4>1, Shift DEF Writer
    <3>2. CASE q # port
      <4>1. r'[q] = r[q] /\ taken'[q] = taken[q]
        BY <1>2, <2>1, <3>2
      <4>2. QED
        BY <1>1, <2>1, <4>1, Untouched DEF Writer
    <3>3. QED
      BY <3>1, <3>2
  <2>4. QED
    BY <2>1, <2>3 DEF RingInv, Typed, Copying, Emptying, Selecting
<1>10. QED
  BY <1>4, <1>5, <1>6, <1>7, <1>8, <1>9 DEF PtpTask, Receiving

LEMMA RingInit == ASSUME ~Halfway, NetInit PROVE RingInv
<1>1. Typed
  BY TypedInit
<1>2. \A q \in Queues : Items(q) /\ Filling(q)
  BY SizeAssumption DEF NetInit, Items, Filling, Length
<1>3. QED
  BY <1>1, <1>2 DEF NetInit, RingInv, Typed, Copying, Emptying, Selecting

LEMMA RingStep == ASSUME RingInv, ~Halfway, [NetNext]_netVars PROVE RingInv'
<1>1. Typed /\ Typed'
  BY TypedStep DEF RingInv, Typed
<1>2. CASE PtpTask
  BY <1>1, <1>2, RingPtp
<1>3. CASE \E q \in Queues : RxTask(q)
  BY <1>1, <1>3, RingRx
<1>4. CASE UNCHANGED netVars
  <2>1. Copying' /\ Emptying' /\ Selecting'
    BY <1>4 DEF netVars, RingInv, Copying, Emptying, Selecting, Length, Step
  <2>2. QED
    BY <1>1, <1>4, <2>1, RingQuiet DEF netVars, Writer
<1>5. QED
  BY <1>2, <1>3, <1>4 DEF NetNext

LEMMA RingHolds == ASSUME ~Halfway PROVE NetSpec => []RingInv
<1>1. NetInit => RingInv
  BY RingInit
<1>2. RingInv /\ [NetNext]_netVars => RingInv'
  BY RingStep
<1>3. QED
  BY <1>1, <1>2, PTL DEF NetSpec

-----------------------------------------------------------------------------
(* The properties.                                                         *)

\* Whatever else the interleaving of the three tasks and however large the
\* rings, netRecv returns whole datagrams in order.
THEOREM ReceivedWholeInOrder ==
  ASSUME ~Halfway PROVE NetSpec => []WholeInOrder
<1>1. RingInv => WholeInOrder
  <2> SUFFICES ASSUME RingInv, rpc = "advance"
               PROVE  /\ copy.payload = taken[port] + 1
                      /\ copy.stamp = copy.payload
                      /\ copy.payload <= sent[port]
    BY DEF WholeInOrder
  <2>1. /\ port \in Queues /\ Length(port) > 0 /\ Items(port)
        /\ taken[port] \in Nat /\ sent[port] \in Nat
    BY DEF RingInv, Copying, NetTypeOK
  <2>2. Length(port) \in Small
    BY <2>1, LengthFacts DEF RingInv
  <2>3. QED
    BY <2>1, <2>2, SizeAssumption DEF RingInv, Copying, Items, Small
<1>2. QED
  BY <1>1, RingHolds, PTL

\* Nor does an rx task fill the item that the PTP task is copying.
THEOREM ItemNotShared == ASSUME ~Halfway PROVE NetSpec => []NoSharedItem
<1>1. RingInv => NoSharedItem
  <2> SUFFICES ASSUME RingInv, NEW q \in Queues, port = q,
                      rpc \in {"stamp", "payload"}
               PROVE  w[q] # r[q]
    BY DEF NoSharedItem
  <2>1. Length(q) > 0 /\ Length(q) \in Small
    BY LengthFacts DEF RingInv, Copying
  <2>2. QED
    BY <2>1, LengthFacts DEF RingInv, IsEmpty, Small
<1>2. QED
  BY <1>1, RingHolds, PTL

\* netSelect returns 1 only if a datagram is there.
THEOREM SelectTells == ASSUME ~Halfway PROVE NetSpec => []SelectTrue
<1>1. RingInv => SelectTrue
  <2> SUFFICES ASSUME RingInv, NEW q \in Queues, Length(q) > 0
               PROVE  taken[q] < sent[q]
    BY DEF RingInv, Selecting, SelectTrue
  <2>1. Items(q) /\ taken[q] \in Nat /\ sent[q] \in Nat
    BY DEF RingInv, NetTypeOK
  <2>2. Length(q) \in Small
    BY LengthFacts DEF RingInv
  <2>3. QED
    BY <2>1, <2>2, SizeAssumption DEF Items, Small
<1>2. QED
  BY <1>1, RingHolds, PTL

-----------------------------------------------------------------------------
(* The rings implement the abstract queues.                                *)

\* The datagrams accepted after the first a, up to number b.
Run(a, b) == [p \in 1 .. b - a |-> a + p]

LEMMA RunFacts ==
  ASSUME NEW a \in Nat, NEW b \in Nat, a <= b
  PROVE  /\ Len(Run(a, b)) = b - a
         /\ Append(Run(a, b), b + 1) = Run(a, b + 1)
         /\ a < b => /\ Head(Run(a, b)) = a + 1
                     /\ Tail(Run(a, b)) = Run(a + 1, b)
                     /\ Run(a, b) # <<>>
         /\ \A c \in a .. b :
              SubSeq(Run(a, b), (c - a) + 1, Len(Run(a, b))) = Run(c, b)
<1>1. Run(a, b) \in Seq(Nat) /\ Len(Run(a, b)) = b - a
  BY DEF Run
<1>2. Append(Run(a, b), b + 1) = Run(a, b + 1)
  BY <1>1 DEF Run
<1>3. ASSUME a < b
      PROVE  /\ Head(Run(a, b)) = a + 1
             /\ Tail(Run(a, b)) = Run(a + 1, b)
             /\ Run(a, b) # <<>>
  <2>1. b - a > 0 /\ b - a \in Nat /\ b - (a + 1) = (b - a) - 1
    BY <1>3
  <2>2. Run(a, b)[1] = a + 1 /\ Run(a, b) # <<>>
    BY <1>1, <2>1 DEF Run
  <2>3. Tail(Run(a, b)) = Run(a + 1, b)
    <3>1. /\ Tail(Run(a, b)) \in Seq(Nat)
          /\ Len(Tail(Run(a, b))) = (b - a) - 1
          /\ \A p \in 1 .. (b - a) - 1 : Tail(Run(a, b))[p] = Run(a, b)[p + 1]
      BY <1>1, <2>1, <2>2
    <3>2. Run(a + 1, b) \in Seq(Nat) /\ Len(Run(a + 1, b)) = (b - a) - 1
      BY <2>1 DEF Run
    <3>3. ASSUME NEW p \in 1 .. (b - a) - 1
          PROVE  Run(a, b)[p + 1] = Run(a + 1, b)[p]
      BY <2>1 DEF Run
    <3>4. \A p \in 1 .. Len(Tail(Run(a, b))) : Tail(Run(a, b))[p] = Run(a + 1, b)[p]
      BY <3>1, <3>3
    <3>5. QED
      BY <3>1, <3>2, <3>4, SeqEqual
  <2>4. QED
    BY <1>1, <2>2, <2>3
<1>4. ASSUME NEW c \in a .. b
      PROVE  SubSeq(Run(a, b), (c - a) + 1, b - a) = Run(c, b)
  BY <1>1 DEF Run
<1>5. QED
  BY <1>1, <1>2, <1>3, <1>4

\* Before and after a step, what waits is what the counts say.
LEMMA WaitingIsRun ==
  ASSUME RingInv, RingInv', NEW q \in Queues
  PROVE  /\ taken[q] \in Nat /\ sent[q] \in Nat
         /\ taken[q] <= sent[q] /\ sent[q] - taken[q] <= Size - 1
         /\ sent'[q] - taken'[q] <= Size - 1
         /\ Waiting(q) = Run(taken[q], sent[q])
         /\ Waiting(q)' = Run(taken'[q], sent'[q])
<1> USE SizeAssumption
<1>1. /\ Length(q) \in Nat /\ Length(q) <= Size - 1
      /\ taken[q] \in Nat /\ sent[q] = taken[q] + Length(q)
  <2>1. Length(q) \in Small /\ taken[q] \in Nat
    BY LengthFacts DEF RingInv, NetTypeOK
  <2>2. QED
    BY <2>1 DEF RingInv, Items, Small
<1>2. ASSUME NEW p \in 1 .. Length(q)
      PROVE  slot[q][Step(r[q], p - 1)].payload = taken[q] + p
  BY <1>1 DEF RingInv, Items
<1>3. Waiting(q) = Run(taken[q], sent[q])
  <2>1. sent[q] - taken[q] = Length(q)
    BY <1>1
  <2>2. QED
    BY <1>2, <2>1 DEF Waiting, Run
<1>4. Length(q)' \in Nat /\ Length(q)' <= Size - 1
  <2>1. w'[q] \in Small /\ r'[q] \in Small
    BY DEF RingInv, Indices
  <2>2. QED
    BY <2>1 DEF Length, Small
<1>5. taken'[q] \in Nat /\ sent'[q] = taken'[q] + Length(q)'
  BY DEF RingInv, NetTypeOK, Items
<1>6. ASSUME NEW p \in 1 .. Length(q)'
      PROVE  slot'[q][Step(r'[q], p - 1)].payload = taken'[q] + p
  <2>1. p - 1 \in 0 .. Length(q)' - 1
    BY <1>4
  <2>2. \A m \in 0 .. Length(q)' - 1 :
          slot'[q][Step(r'[q], m)].payload = taken'[q] + 1 + m
    BY DEF RingInv, Items, Step
  <2>3. QED
    BY <1>5, <2>1, <2>2
<1>7. Waiting(q)' = Run(taken'[q], sent'[q])
  <2>1. sent'[q] - taken'[q] = Length(q)'
    BY <1>4, <1>5
  <2>2. QED
    BY <1>6, <2>1 DEF Waiting, Run, Step
<1>8. QED
  BY <1>1, <1>3, <1>4, <1>5, <1>7

LEMMA StepRefines ==
  ASSUME ~Halfway, RingInv, RingInv', [NetNext]_netVars
  PROVE  [Q!Next]_(Q!vars)
<1> DEFINE before == [q \in Queues |-> Waiting(q)]
           after == [q \in Queues |-> Waiting(q)']
<1> USE SizeAssumption
<1>1. \A q \in Queues :
        /\ taken[q] \in Nat /\ sent[q] \in Nat
        /\ taken[q] <= sent[q] /\ sent[q] - taken[q] <= Size - 1
        /\ sent'[q] - taken'[q] <= Size - 1
        /\ Waiting(q) = Run(taken[q], sent[q])
        /\ Waiting(q)' = Run(taken'[q], sent'[q])
  BY WaitingIsRun
<1>2. /\ sent \in [Queues -> Nat] /\ taken \in [Queues -> Nat]
      /\ port \in Queues
  BY DEF RingInv, NetTypeOK
<1>3. CASE UNCHANGED <<sent, taken, got>>
  <2>1. before = after
    BY <1>1, <1>3
  <2>2. QED
    BY <1>3, <2>1 DEF Q!vars
<1>4. ASSUME NEW q \in Queues, RxAdvance(q)
      PROVE  Q!Accept(q)
  <2>1. /\ sent' = [sent EXCEPT ![q] = @ + 1] /\ UNCHANGED <<taken, got>>
    BY <1>4, OneRxStore DEF RingInv, Reader
  <2>2. \A p \in Queues : p # q => Waiting(p)' = Waiting(p)
    BY <1>1, <1>2, <2>1
  <2>3. sent'[q] = sent[q] + 1
    BY <1>2, <2>1
  <2>4. Waiting(q)' = Append(Waiting(q), sent[q] + 1)
    <3>1. Waiting(q)' = Run(taken[q], sent[q] + 1)
      BY <1>1, <2>1, <2>3
    <3>2. Append(Run(taken[q], sent[q]), sent[q] + 1) = Run(taken[q], sent[q] + 1)
      BY <1>1, RunFacts
    <3>3. QED
      BY <1>1, <3>1, <3>2
  <2>5. after = [before EXCEPT ![q] = Append(@, sent[q] + 1)]
    BY <2>2, <2>4
  <2>6. Len(before[q]) < Size - 1
    <3>1. sent[q] - taken[q] < Size - 1
      BY <1>1, <2>1, <2>3
    <3>2. Len(Run(taken[q], sent[q])) = sent[q] - taken[q]
      BY <1>1, RunFacts
    <3>3. before[q] = Run(taken[q], sent[q])
      BY <1>1
    <3>4. QED
      BY <3>1, <3>2, <3>3
  <2>7. QED
    BY <2>1, <2>5, <2>6 DEF Q!Accept
<1>5. CASE ReadAdvance
  <2>1. /\ taken' = [taken EXCEPT ![port] = @ + 1] /\ UNCHANGED <<sent, port>>
        /\ got' = <<port, taken[port] + 1, taken[port] + 1>>
        /\ rpc = "advance"
    BY <1>5, OneReadStore DEF Writer, RingInv, Copying
  <2>2. \A p \in Queues : p # port => Waiting(p)' = Waiting(p)
    BY <1>1, <1>2, <2>1
  <2>3. taken'[port] = taken[port] + 1 /\ taken[port] < sent[port]
    <3>1. Length(port) > 0 /\ Length(port) \in Small /\ Items(port)
      BY <1>2, <2>1, LengthFacts DEF RingInv, Copying
    <3>2. QED
      BY <1>1, <1>2, <2>1, <3>1 DEF Items, Small
  <2>4. /\ Waiting(port)' = Tail(Waiting(port))
        /\ Head(Waiting(port)) = taken[port] + 1
        /\ Waiting(port) # <<>>
    <3>1. Waiting(port)' = Run(taken[port] + 1, sent[port])
      BY <1>1, <1>2, <2>1, <2>3
    <3>2. /\ Head(Run(taken[port], sent[port])) = taken[port] + 1
          /\ Tail(Run(taken[port], sent[port])) = Run(taken[port] + 1, sent[port])
          /\ Run(taken[port], sent[port]) # <<>>
      BY <1>1, <1>2, <2>3, RunFacts
    <3>3. QED
      BY <1>1, <1>2, <2>1, <3>1, <3>2
  <2>5. after = [before EXCEPT ![port] = Tail(@)]
    <3>1. after[port] = Tail(before[port])
      BY <1>2, <2>1, <2>4
    <3>2. QED
      BY <1>2, <2>2, <3>1
  <2>6. Q!Deliver(port)
    BY <1>2, <2>1, <2>4, <2>5 DEF Q!Deliver
  <2>7. QED
    BY <1>2, <2>6 DEF Q!Next
<1>6. CASE netQEmpty
  <2> DEFINE k == mark.upto - taken[port]
  <2>1. /\ taken' = [taken EXCEPT ![port] = mark.upto] /\ UNCHANGED <<sent, got, port>>
        /\ rpc = "empty"
    BY <1>6 DEF netQEmpty, Writer
  <2>2. mark.upto \in Nat /\ mark.upto \in taken[port] .. sent[port]
    <3>1. mark.upto \in Nat
      BY DEF RingInv, NetTypeOK
    <3>2. QED
      BY <1>1, <1>2, <2>1, <3>1 DEF RingInv, Emptying
  <2>3. \A p \in Queues : p # port => Waiting(p)' = Waiting(p)
    BY <1>1, <1>2, <2>1
  <2>4. Waiting(port)' = SubSeq(Waiting(port), k + 1, Len(Waiting(port)))
    <3>1. taken'[port] = mark.upto /\ sent'[port] = sent[port]
      BY <1>2, <2>1
    <3>2. Waiting(port)' = Run(mark.upto, sent[port])
      BY <1>1, <1>2, <2>1, <3>1
    <3>3. SubSeq(Run(taken[port], sent[port]), k + 1,
                 Len(Run(taken[port], sent[port]))) = Run(mark.upto, sent[port])
      BY <1>1, <1>2, <2>2, RunFacts
    <3>4. QED
      BY <1>1, <1>2, <2>1, <3>2, <3>3
  <2>5. k \in 0 .. Len(before[port])
    <3>1. Len(Waiting(port)) = sent[port] - taken[port]
      BY <1>1, <1>2, RunFacts
    <3>2. before[port] = Waiting(port)
      BY <1>2
    <3>3. k \in 0 .. sent[port] - taken[port]
      BY <1>1, <1>2, <2>2
    <3>4. QED
      BY <3>1, <3>2, <3>3
  <2>6. after = [before EXCEPT ![port] = SubSeq(@, k + 1, Len(@))]
    <3>1. after[port] = SubSeq(before[port], k + 1, Len(before[port]))
      BY <1>2, <2>1, <2>4
    <3>2. QED
      BY <1>2, <2>3, <3>1
  <2>7. Q!Discard(port)
    BY <1>2, <2>1, <2>5, <2>6 DEF Q!Discard
  <2>8. QED
    BY <1>2, <2>7 DEF Q!Next
<1>7. CASE PtpTask /\ ~ReadAdvance /\ ~netQEmpty
  BY <1>3, <1>7 DEF PtpTask, Receiving, Writer, netSelect, netRecvEvent,
     netRecvGeneral, CopyStamp, CopyPayload, netEmptyEventQ,
     netEmptyGeneralQ
<1>8. CASE \E q \in Queues : RxTask(q)
  <2> PICK q \in Queues : RxTask(q)
    BY <1>8
  <2>1. CASE RxAdvance(q)
    BY <1>4, <2>1 DEF Q!Next
  <2>2. CASE ~RxAdvance(q)
    BY <1>3, <2>2 DEF RxTask, Reader, RxAccept, RxRefuse, RxPayload, RxStamp,
       RxRelease
  <2>3. QED
    BY <2>1, <2>2
<1>9. CASE UNCHANGED netVars
  BY <1>3, <1>9 DEF netVars
<1>10. QED
  BY <1>5, <1>6, <1>7, <1>8, <1>9 DEF NetNext

\* The rings are bounded queues that deliver whole datagrams in order,
\* whatever else the interleaving and the size of the rings.
THEOREM RingsAreQueues == ASSUME ~Halfway PROVE NetSpec => ImplementsQueue
<1>1. NetInit => Q!Init
  <2> SUFFICES ASSUME NetInit PROVE Q!Init
    OBVIOUS
  <2>1. ASSUME NEW q \in Queues PROVE Waiting(q) = <<>>
    BY SizeAssumption DEF NetInit, Waiting, Length
  <2>2. QED
    BY <2>1 DEF NetInit, Q!Init
<1>2. RingInv /\ RingInv' /\ [NetNext]_netVars => [Q!Next]_(Q!vars)
  BY StepRefines
<1>3. QED
  BY <1>1, <1>2, RingHolds, PTL DEF NetSpec, ImplementsQueue, Q!Spec
=============================================================================
