-------------------------- MODULE UdpBuffersProofs --------------------------
(***************************************************************************)
(* Proofs about the network buffers, for any number of them and of         *)
(* descriptors, of clients that leave alone what they have sent            *)
(* (~KeepsSent).                                                           *)
(*                                                                         *)
(* BufInv says of the sequences that make up Held what OneOwner says of    *)
(* Held: that no buffer is in one twice (Apart) nor in two (Disjoint).     *)
(* Each hand-over is then a change of two of these sets.                   *)
(***************************************************************************)
EXTENDS UdpBuffers, SequenceTheorems, FiniteSetTheorems, TLAPS

Places == Buffers \union {None}

\* The buffers in a sequence of places, and that none is there twice.
Vals(s) == {s[i] : i \in 1 .. Len(s)} \ {None}
Apart(s) == \A i, j \in 1 .. Len(s) : s[i] = s[j] /\ s[i] # None => i = j
Bufs(s) == [i \in 1 .. Len(s) |-> s[i].buf]

EventSet == [kind : {"rx", "tx"}, buf : Buffers]
Descriptor == [buf : Places, ready : BOOLEAN]

BufTypeOK ==
  /\ free \in Seq(Buffers) /\ rx \in Seq(Buffers) /\ waiting \in Seq(Buffers)
  /\ Len(rx) = NRx
  /\ events \in Seq(EventSet)
  /\ tx \in Seq(Descriptor) /\ Len(tx) = NTx
  /\ ip \in [step : {"idle", "clear", "send"}, buf : Places]
  /\ app \in [step : {"idle", "serve"}, buf : Places]
  /\ app.step = "serve" <=> app.buf # None
  /\ ip.step = "idle" <=> ip.buf = None
  /\ out \in Places

AllApart ==
  /\ Apart(free) /\ Apart(rx) /\ Apart(waiting)
  /\ Apart(Bufs(events)) /\ Apart(Bufs(tx))

One(b) == {b} \ {None}
AllVals ==
  Vals(free) \union Vals(rx) \union Vals(waiting) \union Vals(Bufs(events))
    \union Vals(Bufs(tx)) \union One(ip.buf) \union One(app.buf) \union One(out)

Disjoint ==
  /\ Vals(free) \cap Vals(rx) = {}
  /\ (Vals(free) \union Vals(rx)) \cap Vals(waiting) = {}
  /\ (Vals(free) \union Vals(rx) \union Vals(waiting)) \cap Vals(Bufs(events)) = {}
  /\ (Vals(free) \union Vals(rx) \union Vals(waiting) \union Vals(Bufs(events)))
        \cap Vals(Bufs(tx)) = {}
  /\ ip.buf # None => ip.buf \notin
       Vals(free) \union Vals(rx) \union Vals(waiting) \union Vals(Bufs(events))
         \union Vals(Bufs(tx)) \union One(app.buf) \union One(out)
  /\ app.buf # None => app.buf \notin
       Vals(free) \union Vals(rx) \union Vals(waiting) \union Vals(Bufs(events))
         \union Vals(Bufs(tx)) \union One(out)
  /\ out # None => out \notin
       Vals(free) \union Vals(rx) \union Vals(waiting) \union Vals(Bufs(events))
         \union Vals(Bufs(tx))

BufInv == BufTypeOK /\ AllApart /\ Disjoint

-----------------------------------------------------------------------------
(* Sequences of places.                                                    *)

\* Appending puts one more buffer in.
LEMMA AppendFacts ==
  ASSUME NEW S, NEW s \in Seq(S), NEW b \in S
  PROVE  /\ Append(s, b) \in Seq(S)
         /\ Len(Append(s, b)) = Len(s) + 1
         /\ Vals(Append(s, b)) = Vals(s) \union One(b)
         /\ Apart(s) /\ b \notin Vals(s) => Apart(Append(s, b))
<1>1. /\ Append(s, b) \in Seq(S) /\ Len(Append(s, b)) = Len(s) + 1 /\ Len(s) \in Nat
      /\ \A i \in 1 .. Len(s) : Append(s, b)[i] = s[i]
      /\ Append(s, b)[Len(s) + 1] = b
  OBVIOUS
<1>2. \A i \in 1 .. Len(s) + 1 : i \in 1 .. Len(s) \/ i = Len(s) + 1
  BY <1>1
<1>3. Vals(Append(s, b)) = Vals(s) \union One(b)
  BY <1>1, <1>2 DEF Vals, One
<1>4. Apart(s) /\ b \notin Vals(s) => Apart(Append(s, b))
  BY <1>1, <1>2 DEF Vals, Apart
<1>5. QED
  BY <1>1, <1>3, <1>4

\* Taking the head takes one buffer out.
LEMMA TailFacts ==
  ASSUME NEW S, NEW s \in Seq(S), s # <<>>
  PROVE  /\ Head(s) \in S /\ Tail(s) \in Seq(S) /\ Len(Tail(s)) = Len(s) - 1
         /\ Head(s) = s[1]
         /\ Head(s) # None => Head(s) \in Vals(s)
         /\ Apart(s) => Vals(Tail(s)) = Vals(s) \ {Head(s)} /\ Apart(Tail(s))
<1>1. /\ Head(s) \in S /\ Tail(s) \in Seq(S) /\ Len(s) \in Nat \ {0}
      /\ Len(Tail(s)) = Len(s) - 1 /\ Head(s) = s[1]
      /\ \A i \in 1 .. Len(s) - 1 : Tail(s)[i] = s[i + 1]
  BY HeadTailProperties, EmptySeq
<1>2. \A i \in 1 .. Len(s) : i = 1 \/ (i - 1 \in 1 .. Len(s) - 1 /\ Tail(s)[i - 1] = s[i])
  BY <1>1
<1>3. 1 \in 1 .. Len(s) /\ \A i \in 1 .. Len(s) - 1 : i + 1 \in 1 .. Len(s) /\ i + 1 # 1
  BY <1>1
<1>4. ASSUME Apart(s)
      PROVE  Vals(Tail(s)) = Vals(s) \ {Head(s)}
  <2>1. Vals(Tail(s)) \subseteq Vals(s) \ {Head(s)}
    BY <1>1, <1>3, <1>4 DEF Vals, Apart
  <2>2. Vals(s) \ {Head(s)} \subseteq Vals(Tail(s))
    BY <1>1, <1>2 DEF Vals
  <2>3. QED
    BY <2>1, <2>2
<1>5. ASSUME Apart(s)
      PROVE  Apart(Tail(s))
  BY <1>1, <1>3, <1>5 DEF Apart
<1>6. QED
  BY <1>1, <1>3, <1>4, <1>5 DEF Vals

\* Two sequences one after the other.
LEMMA ConcatFacts ==
  ASSUME NEW S, NEW s \in Seq(S), NEW t \in Seq(S)
  PROVE  /\ s \o t \in Seq(S)
         /\ Vals(s \o t) = Vals(s) \union Vals(t)
         /\ Apart(s) /\ Apart(t) /\ Vals(s) \cap Vals(t) = {} => Apart(s \o t)
<1>1. /\ s \o t \in Seq(S) /\ Len(s) \in Nat /\ Len(t) \in Nat
      /\ Len(s \o t) = Len(s) + Len(t)
      /\ \A i \in 1 .. Len(s) + Len(t) :
           (s \o t)[i] = IF i <= Len(s) THEN s[i] ELSE t[i - Len(s)]
  BY ConcatProperties
<1>2. \A i \in 1 .. Len(s) + Len(t) :
         \/ i \in 1 .. Len(s) /\ (s \o t)[i] = s[i]
         \/ /\ i - Len(s) \in 1 .. Len(t) /\ (s \o t)[i] = t[i - Len(s)]
  BY <1>1
<1>3. /\ \A i \in 1 .. Len(s) : i \in 1 .. Len(s) + Len(t) /\ (s \o t)[i] = s[i]
      /\ \A i \in 1 .. Len(t) : /\ Len(s) + i \in 1 .. Len(s) + Len(t)
                                /\ (s \o t)[Len(s) + i] = t[i]
  BY <1>1
<1>4. Vals(s \o t) \subseteq Vals(s) \union Vals(t)
  BY <1>1, <1>2 DEF Vals
<1>5. Vals(s) \union Vals(t) \subseteq Vals(s \o t)
  BY <1>1, <1>3 DEF Vals
<1>6. ASSUME Apart(s), Apart(t), Vals(s) \cap Vals(t) = {},
             NEW i \in 1 .. Len(s) + Len(t), NEW j \in 1 .. Len(s) + Len(t),
             (s \o t)[i] = (s \o t)[j], (s \o t)[i] # None
      PROVE  i = j
  <2>1. CASE i \in 1 .. Len(s) /\ j \in 1 .. Len(s)
    BY <1>3, <1>6, <2>1 DEF Apart
  <2>2. CASE i - Len(s) \in 1 .. Len(t) /\ j - Len(s) \in 1 .. Len(t)
    <3>1. (s \o t)[i] = t[i - Len(s)] /\ (s \o t)[j] = t[j - Len(s)]
      BY <1>1, <2>2
    <3>2. i - Len(s) = j - Len(s)
      BY <1>6, <2>2, <3>1 DEF Apart
    <3>3. QED
      BY <1>1, <3>2
  <2>3. CASE i \in 1 .. Len(s) /\ j - Len(s) \in 1 .. Len(t)
    <3>1. (s \o t)[i] = s[i] /\ (s \o t)[j] = t[j - Len(s)]
      BY <1>1, <2>3
    <3>2. QED
      BY <1>6, <2>3, <3>1 DEF Vals
  <2>4. CASE i - Len(s) \in 1 .. Len(t) /\ j \in 1 .. Len(s)
    <3>1. (s \o t)[j] = s[j] /\ (s \o t)[i] = t[i - Len(s)]
      BY <1>1, <2>4
    <3>2. QED
      BY <1>6, <2>4, <3>1 DEF Vals
  <2>5. QED
    BY <1>2, <2>1, <2>2, <2>3, <2>4
<1>7. QED
  BY <1>1, <1>4, <1>5, <1>6 DEF Apart

\* The buffers of a sequence of events or descriptors.
LEMMA BufsFacts ==
  ASSUME NEW S, NEW s \in Seq(S), \A e \in S : e.buf \in Places
  PROVE  /\ Bufs(s) \in Seq(Places) /\ Len(Bufs(s)) = Len(s)
         /\ s # <<>> => /\ Bufs(s) # <<>> /\ Head(Bufs(s)) = Head(s).buf
                        /\ Bufs(Tail(s)) = Tail(Bufs(s))
         /\ \A e \in S : Bufs(Append(s, e)) = Append(Bufs(s), e.buf)
<1>1. Len(s) \in Nat /\ \A i \in 1 .. Len(s) : s[i] \in S
  OBVIOUS
<1>2. Bufs(s) \in Seq(Places) /\ Len(Bufs(s)) = Len(s)
  BY <1>1 DEF Bufs
<1>3. ASSUME s # <<>>
      PROVE  /\ Bufs(s) # <<>> /\ Head(Bufs(s)) = Head(s).buf
             /\ Bufs(Tail(s)) = Tail(Bufs(s))
  BY <1>1, <1>2, <1>3, HeadTailProperties, EmptySeq DEF Bufs
<1>4. ASSUME NEW e \in S
      PROVE  Bufs(Append(s, e)) = Append(Bufs(s), e.buf)
  BY <1>1, <1>2, <1>4 DEF Bufs
<1>5. QED
  BY <1>2, <1>3, <1>4
LEMMA BufPlaces ==
  /\ \A e \in EventSet : e.buf \in Places
  /\ \A e \in Descriptor : e.buf \in Places
BY DEF EventSet, Descriptor, Places

\* A ring of descriptors goes on by one: the first buffer leaves, another
\* comes last.
LEMMA TurnFacts ==
  ASSUME NEW S, NEW s \in Seq(S), s # <<>>, Apart(s),
         NEW b \in S, b \notin Vals(s) \ {Head(s)}
  PROVE  /\ Append(Tail(s), b) \in Seq(S) /\ Len(Append(Tail(s), b)) = Len(s)
         /\ Vals(Append(Tail(s), b)) = (Vals(s) \ {Head(s)}) \union One(b)
         /\ Apart(Append(Tail(s), b))
<1>1. /\ Tail(s) \in Seq(S) /\ Len(Tail(s)) = Len(s) - 1 /\ Len(s) \in Nat
      /\ Vals(Tail(s)) = Vals(s) \ {Head(s)} /\ Apart(Tail(s))
  BY TailFacts
<1>2. /\ Append(Tail(s), b) \in Seq(S) /\ Len(Append(Tail(s), b)) = Len(Tail(s)) + 1
      /\ Vals(Append(Tail(s), b)) = Vals(Tail(s)) \union One(b)
      /\ Apart(Append(Tail(s), b))
  BY <1>1, AppendFacts
<1>3. QED
  BY <1>1, <1>2

-----------------------------------------------------------------------------
(* What the hand-overs do to the places.                                   *)

\* The pool gets a buffer.
LEMMA ReleaseFacts ==
  ASSUME free \in Seq(Buffers), Apart(free),
         NEW b \in Buffers, b \notin Vals(free), Release(b)
  PROVE  /\ free' \in Seq(Buffers) /\ Apart(free')
         /\ Vals(free') = Vals(free) \union {b}
<1>1. b \notin Range(free)
  <2>1. DOMAIN free = 1 .. Len(free)
    OBVIOUS
  <2>2. QED
    BY <2>1, NoBufferAssumption DEF Range, Vals
<1>2. free' = Append(free, b) /\ One(b) = {b}
  BY <1>1, NoBufferAssumption DEF Release, One
<1>3. QED
  BY <1>2, AppendFacts

\* The pool gives a buffer.
LEMMA GetFacts ==
  ASSUME free \in Seq(Buffers), Apart(free), NEW b, Get(b)
  PROVE  /\ b \in Buffers /\ b \in Vals(free) /\ b = Head(free)
         /\ free' \in Seq(Buffers) /\ Apart(free')
         /\ Vals(free') = Vals(free) \ {b}
BY TailFacts, NoBufferAssumption DEF Get

\* An event for the IP task takes a buffer along.
LEMMA PutFacts ==
  ASSUME events \in Seq(EventSet), Apart(Bufs(events)),
         NEW k \in {"rx", "tx"}, NEW b \in Buffers, b \notin Vals(Bufs(events)),
         Put(k, b)
  PROVE  /\ events' \in Seq(EventSet) /\ Apart(Bufs(events'))
         /\ Vals(Bufs(events')) = Vals(Bufs(events)) \union {b}
<1> DEFINE e == [kind |-> k, buf |-> b]
<1>1. e \in EventSet /\ e.buf = b /\ events' = Append(events, e)
  BY DEF EventSet, Put
<1>2. Bufs(events) \in Seq(Places) /\ Bufs(events') = Append(Bufs(events), b)
  BY <1>1, BufPlaces, BufsFacts
<1>3. b \in Places /\ One(b) = {b}
  BY NoBufferAssumption DEF Places, One
<1>4. events' \in Seq(EventSet)
  BY <1>1
<1>5. QED
  BY <1>2, <1>3, <1>4, AppendFacts

\* The IP task takes an event.
LEMMA TakenFacts ==
  ASSUME events \in Seq(EventSet), Apart(Bufs(events)), events # <<>>,
         events' = Tail(events)
  PROVE  /\ Taken \in Buffers /\ Taken \in Vals(Bufs(events))
         /\ events' \in Seq(EventSet) /\ Apart(Bufs(events'))
         /\ Vals(Bufs(events')) = Vals(Bufs(events)) \ {Taken}
<1>1. Head(events) \in EventSet /\ events' \in Seq(EventSet)
  BY TailFacts
<1>2. Taken \in Buffers /\ Taken # None
  BY <1>1, NoBufferAssumption DEF Taken, EventSet
<1>3. /\ Bufs(events) \in Seq(Places) /\ Bufs(events) # <<>>
      /\ Head(Bufs(events)) = Taken /\ Bufs(events') = Tail(Bufs(events))
  BY BufPlaces, BufsFacts DEF Taken
<1>4. QED
  BY <1>1, <1>2, <1>3, TailFacts

\* The receive descriptors go on by one.
LEMMA RxFacts ==
  ASSUME BufTypeOK, Apart(rx), NEW b \in Buffers,
         b \notin Vals(rx) \/ b = Head(rx), rx' = Append(Tail(rx), b)
  PROVE  /\ Head(rx) \in Buffers /\ Head(rx) \in Vals(rx)
         /\ rx' \in Seq(Buffers) /\ Len(rx') = NRx /\ Apart(rx')
         /\ Vals(rx') = (Vals(rx) \ {Head(rx)}) \union {b}
<1>1. rx \in Seq(Buffers) /\ rx # <<>> /\ Len(rx) = NRx
  BY PoolAssumption DEF BufTypeOK
<1>2. Head(rx) \in Buffers /\ Head(rx) \in Vals(rx)
  BY <1>1, TailFacts, NoBufferAssumption
<1>3. One(b) = {b} /\ b \notin Vals(rx) \ {Head(rx)}
  BY NoBufferAssumption DEF One
<1>4. QED
  BY <1>1, <1>2, <1>3, TurnFacts

\* The transmit descriptors, whose buffers stay when they are done.
LEMMA TxFacts ==
  ASSUME BufTypeOK
  PROVE  /\ Bufs(tx) \in Seq(Places) /\ Len(Bufs(tx)) = NTx
         /\ 1 \in 1 .. NTx /\ tx # <<>> /\ tx[1] \in Descriptor
         /\ Bufs(tx) # <<>> /\ Head(Bufs(tx)) = tx[1].buf
         /\ tx[1].buf # None => tx[1].buf \in Vals(Bufs(tx))
<1>1. tx \in Seq(Descriptor) /\ tx # <<>> /\ Len(tx) = NTx /\ 1 \in 1 .. NTx
  BY PoolAssumption DEF BufTypeOK
<1>2. tx[1] \in Descriptor /\ Head(tx) = tx[1]
  BY <1>1
<1>3. /\ Bufs(tx) \in Seq(Places) /\ Len(Bufs(tx)) = NTx
      /\ Bufs(tx) # <<>> /\ Head(Bufs(tx)) = tx[1].buf
  BY <1>1, <1>2, BufPlaces, BufsFacts
<1>4. QED
  BY <1>1, <1>2, <1>3, TailFacts

LEMMA TxTurnFacts ==
  ASSUME BufTypeOK, Apart(Bufs(tx)), NEW b \in Buffers, b \notin Vals(Bufs(tx)),
         tx' = Append(Tail(tx), [buf |-> b, ready |-> TRUE])
  PROVE  /\ tx' \in Seq(Descriptor) /\ Len(tx') = NTx /\ Apart(Bufs(tx'))
         /\ Vals(Bufs(tx')) = (Vals(Bufs(tx)) \ {tx[1].buf}) \union {b}
<1> DEFINE d == [buf |-> b, ready |-> TRUE]
<1>1. d \in Descriptor /\ d.buf = b /\ b \in Places /\ One(b) = {b}
  BY NoBufferAssumption DEF Descriptor, Places, One
<1>2. tx \in Seq(Descriptor) /\ tx # <<>> /\ Len(tx) = NTx /\ NTx \in Nat
  BY TxFacts, PoolAssumption DEF BufTypeOK
<1>3. Tail(tx) \in Seq(Descriptor) /\ Len(Tail(tx)) = NTx - 1
  BY <1>2, TailFacts
<1>4. tx' \in Seq(Descriptor) /\ Len(tx') = NTx
  BY <1>1, <1>2, <1>3, AppendFacts
<1>5. Bufs(tx') = Append(Bufs(Tail(tx)), b)
  BY <1>1, <1>3, BufPlaces, BufsFacts
<1>6. Bufs(Tail(tx)) = Tail(Bufs(tx))
  BY <1>2, BufPlaces, BufsFacts
<1>7. /\ Bufs(tx) \in Seq(Places) /\ Bufs(tx) # <<>>
      /\ Head(Bufs(tx)) = tx[1].buf
  BY TxFacts
<1>8. /\ Apart(Append(Tail(Bufs(tx)), b))
      /\ Vals(Append(Tail(Bufs(tx)), b)) = (Vals(Bufs(tx)) \ {tx[1].buf}) \union {b}
  BY <1>1, <1>7, TurnFacts
<1>9. QED
  BY <1>4, <1>5, <1>6, <1>8

\* The buffers of a sequence of descriptors.
LEMMA BufVals ==
  ASSUME NEW s, NEW n \in Nat, Len(s) = n
  PROVE  Vals(Bufs(s)) = {s[i].buf : i \in 1 .. n} \ {None}
<1>1. Len(Bufs(s)) = n
  BY DEF Bufs
<1>2. \A i \in 1 .. n : Bufs(s)[i] = s[i].buf
  BY DEF Bufs
<1>3. {Bufs(s)[i] : i \in 1 .. n} = {s[i].buf : i \in 1 .. n}
  BY <1>2
<1>4. QED
  BY <1>1, <1>3 DEF Vals

\* Taking the first buffer out of a sequence of descriptors.
LEMMA ClearFirst ==
  ASSUME NEW n \in Nat \ {0}, NEW s, NEW t, Len(s) = n, Len(t) = n,
         t[1].buf = None, \A i \in 1 .. n : i # 1 => t[i] = s[i],
         Apart(Bufs(s))
  PROVE  Apart(Bufs(t)) /\ Vals(Bufs(t)) = Vals(Bufs(s)) \ {s[1].buf}
<1>1. /\ Len(Bufs(s)) = n /\ Len(Bufs(t)) = n
      /\ \A i \in 1 .. n : Bufs(s)[i] = s[i].buf /\ Bufs(t)[i] = t[i].buf
  BY DEF Bufs
<1>2. Apart(Bufs(t))
  BY <1>1 DEF Apart
<1>3. /\ Vals(Bufs(s)) = {s[i].buf : i \in 1 .. n} \ {None}
      /\ Vals(Bufs(t)) = {t[i].buf : i \in 1 .. n} \ {None}
  BY BufVals
<1>4. \A i \in 1 .. n : i # 1 /\ s[i].buf # None => s[i].buf # s[1].buf
  BY <1>1 DEF Apart
<1>5. \A i \in 1 .. n : t[i].buf # None => i # 1 /\ t[i].buf = s[i].buf
  OBVIOUS
<1>6. \A i \in 1 .. n : s[i].buf # s[1].buf => t[i].buf = s[i].buf
  OBVIOUS
<1>7. Vals(Bufs(t)) \subseteq Vals(Bufs(s)) \ {s[1].buf}
  BY <1>3, <1>4, <1>5
<1>8. Vals(Bufs(s)) \ {s[1].buf} \subseteq Vals(Bufs(t))
  BY <1>3, <1>6
<1>9. QED
  BY <1>2, <1>7, <1>8

LEMMA TxClearFacts ==
  ASSUME BufTypeOK, Apart(Bufs(tx)), tx' = [tx EXCEPT ![1].buf = None]
  PROVE  /\ tx' \in Seq(Descriptor) /\ Len(tx') = NTx /\ Apart(Bufs(tx'))
         /\ Vals(Bufs(tx')) = Vals(Bufs(tx)) \ {tx[1].buf}
<1>1. tx \in Seq(Descriptor) /\ Len(tx) = NTx /\ 1 \in 1 .. NTx /\ NTx \in Nat
      /\ tx[1] \in Descriptor
  BY TxFacts, PoolAssumption DEF BufTypeOK
<1>2. PICK t : t = [tx EXCEPT ![1] = [tx[1] EXCEPT !.buf = None]]
  OBVIOUS
<1>3. [tx[1] EXCEPT !.buf = None] \in Descriptor
  BY <1>1 DEF Descriptor, Places
<1>4. /\ t \in Seq(Descriptor) /\ Len(t) = NTx
      /\ t[1].buf = None /\ \A i \in 1 .. NTx : i # 1 => t[i] = tx[i]
  BY <1>1, <1>2, <1>3, ExceptSeq DEF Descriptor
<1>5. Apart(Bufs(t)) /\ Vals(Bufs(t)) = Vals(Bufs(tx)) \ {tx[1].buf}
  BY <1>1, <1>4, ClearFirst, PoolAssumption
<1>6. tx' = t
  BY <1>1, <1>2
<1>7. QED
  BY <1>4, <1>5, <1>6

LEMMA TxDoneFacts ==
  ASSUME BufTypeOK, TxDone
  PROVE  /\ tx' \in Seq(Descriptor) /\ Len(tx') = NTx
         /\ Bufs(tx') = Bufs(tx)
<1>1. PICK i \in 1 .. NTx : tx' = [tx EXCEPT ![i].ready = FALSE]
  BY DEF TxDone
<1>2. tx \in Seq(Descriptor) /\ Len(tx) = NTx /\ tx[i] \in Descriptor
  BY DEF BufTypeOK
<1>3. tx' = [tx EXCEPT ![i] = [tx[i] EXCEPT !.ready = FALSE]]
  BY <1>1, <1>2
<1>4. /\ [tx[i] EXCEPT !.ready = FALSE] \in Descriptor
      /\ [tx[i] EXCEPT !.ready = FALSE].buf = tx[i].buf
  BY <1>2 DEF Descriptor
<1>5. /\ tx' \in Seq(Descriptor) /\ Len(tx') = NTx
      /\ \A j \in 1 .. NTx : tx'[j].buf = tx[j].buf
  BY <1>2, <1>3, <1>4, ExceptSeq
<1>6. QED
  BY <1>2, <1>5 DEF Bufs
-----------------------------------------------------------------------------
(* The invariant.                                                          *)

\* The first state: ENET_DRV_Init has shared out different buffers.
LEMMA BufInitInv == BufInit => BufInv
<1> SUFFICES ASSUME BufInit
             PROVE  BufInv
  OBVIOUS
<1> DEFINE all == SetToSeq(Buffers)
<1>1. /\ all \in [1 .. Cardinality(Buffers) -> Buffers] /\ IsInjective(all)
      /\ Cardinality(Buffers) \in Nat
  <2>1. /\ Cardinality(Buffers) \in Nat
        /\ ExistsBijection(1 .. Cardinality(Buffers), Buffers)
    BY FS_CardinalityType, PoolAssumption
  <2>2. \E f \in [1 .. Cardinality(Buffers) -> Buffers] : IsInjective(f)
    BY <2>1 DEF ExistsBijection, Bijection, Injection, IsInjective
  <2>3. QED
    BY <2>1, <2>2 DEF SetToSeq
<1>2. /\ all \in Seq(Buffers) /\ Len(all) = Cardinality(Buffers)
      /\ \A i, j \in 1 .. Len(all) : all[i] = all[j] => i = j
  BY <1>1 DEF IsInjective
<1> HIDE DEF all
<1>3. /\ rx = SubSeq(all, 1, NRx) /\ free = SubSeq(all, NRx + 1, Len(all))
      /\ NRx \in Nat /\ NRx <= Len(all)
  BY <1>1, <1>2, PoolAssumption DEF BufInit, all
<1>4. /\ rx \in Seq(Buffers) /\ Len(rx) = NRx
      /\ \A i \in 1 .. NRx : rx[i] = all[i]
  BY <1>2, <1>3
<1>5. /\ free \in Seq(Buffers) /\ Len(free) = Len(all) - NRx
      /\ \A i \in 1 .. Len(all) - NRx : free[i] = all[NRx + i]
  BY <1>2, <1>3
<1>6. Apart(rx) /\ Apart(free) /\ Vals(free) \cap Vals(rx) = {}
  <2>1. Apart(rx)
    BY <1>2, <1>3, <1>4 DEF Apart
  <2>2. Apart(free)
    BY <1>2, <1>3, <1>5 DEF Apart
  <2>3. \A i \in 1 .. Len(free), j \in 1 .. Len(rx) : free[i] # rx[j]
    BY <1>2, <1>3, <1>4, <1>5
  <2>4. QED
    BY <2>1, <2>2, <2>3 DEF Vals
<1>7. tx \in Seq(Descriptor) /\ Len(tx) = NTx
  BY PoolAssumption DEF BufInit, Descriptor, Places
<1>8. Apart(Bufs(tx)) /\ Vals(Bufs(tx)) = {}
  BY PoolAssumption DEF BufInit, Bufs, Apart, Vals
<1>9. /\ events = <<>> /\ waiting = <<>> /\ ip = Resting /\ app = Resting /\ out = None
      /\ Apart(waiting) /\ Apart(Bufs(events))
      /\ Vals(waiting) = {} /\ Vals(Bufs(events)) = {}
  BY DEF BufInit, Bufs, Apart, Vals
<1>10. BufTypeOK
  BY <1>4, <1>5, <1>7, <1>9 DEF BufTypeOK, Resting, Places
<1>11. Disjoint
  BY <1>6, <1>8, <1>9 DEF Disjoint, Resting
<1>12. QED
  BY <1>6, <1>8, <1>9, <1>10, <1>11 DEF BufInv, AllApart

Kept == AllVals \subseteq AllVals'

\* Whatever hand-over comes next, no buffer gets a second owner, and none
\* is lost but by the frame that is sent.
LEMMA BufStep ==
  ASSUME ~KeepsSent, BufInv, BufNext
  PROVE  /\ BufInv'
         /\ Kept \/ (ip.step = "send" /\ AllVals \subseteq AllVals' \union {tx[1].buf})
<1> USE DEF BufInv
<1>1. CASE TxDone
  <2>1. /\ tx' \in Seq(Descriptor) /\ Len(tx') = NTx /\ Bufs(tx') = Bufs(tx)
        /\ UNCHANGED <<free, rx, events, waiting, ip, app, out>>
    BY <1>1, TxDoneFacts DEF TxDone
  <2>2. QED
    BY <2>1 DEF BufTypeOK, AllApart, Disjoint, Kept, AllVals
<1>2. CASE RxFrame
  <2>1. PICK b \in Buffers : Get(b) /\ rx' = Append(Tail(rx), b)
    BY <1>2 DEF RxFrame
  <2>2. Put("rx", Head(rx)) /\ UNCHANGED <<tx, waiting, ip, app, out>>
    BY <1>2 DEF RxFrame
  <2>3. /\ b \in Vals(free) /\ free' \in Seq(Buffers) /\ Apart(free')
        /\ Vals(free') = Vals(free) \ {b}
    BY <2>1, GetFacts DEF BufTypeOK, AllApart
  <2>4. b \notin Vals(rx)
    BY <2>3 DEF Disjoint
  <2>5. /\ Head(rx) \in Buffers /\ Head(rx) \in Vals(rx)
        /\ rx' \in Seq(Buffers) /\ Len(rx') = NRx /\ Apart(rx')
        /\ Vals(rx') = (Vals(rx) \ {Head(rx)}) \union {b}
    BY <2>1, <2>4, RxFacts DEF AllApart
  <2>6. Head(rx) \notin Vals(Bufs(events))
    BY <2>5 DEF Disjoint
  <2>7. /\ events' \in Seq(EventSet) /\ Apart(Bufs(events'))
        /\ Vals(Bufs(events')) = Vals(Bufs(events)) \union {Head(rx)}
    BY <2>2, <2>5, <2>6, PutFacts DEF BufTypeOK, AllApart
  <2>8. BufTypeOK' /\ AllApart'
    BY <2>2, <2>3, <2>5, <2>7 DEF BufTypeOK, AllApart
  <2>9. Disjoint' /\ Kept
    BY <2>2, <2>3, <2>5, <2>7 DEF Disjoint, Kept, AllVals
  <2>10. QED
    BY <2>8, <2>9
<1>3. CASE RxEventLost
  <2>1. /\ free # <<>> /\ rx' = Append(Tail(rx), Head(free))
        /\ free' = Append(Tail(free), Head(rx))
        /\ UNCHANGED <<tx, events, waiting, ip, app, out>>
    BY <1>3 DEF RxEventLost
  <2>2. Head(free) \in Buffers /\ Head(free) \in Vals(free)
    BY <2>1, TailFacts, NoBufferAssumption DEF BufTypeOK
  <2>3. Head(free) \notin Vals(rx)
    BY <2>2 DEF Disjoint
  <2>4. /\ Head(rx) \in Buffers /\ Head(rx) \in Vals(rx)
        /\ rx' \in Seq(Buffers) /\ Len(rx') = NRx /\ Apart(rx')
        /\ Vals(rx') = (Vals(rx) \ {Head(rx)}) \union {Head(free)}
    BY <2>1, <2>2, <2>3, RxFacts DEF AllApart
  <2>5. Head(rx) \notin Vals(free) /\ One(Head(rx)) = {Head(rx)}
    BY <2>4, NoBufferAssumption DEF Disjoint, One
  <2>6. /\ free' \in Seq(Buffers) /\ Apart(free')
        /\ Vals(free') = (Vals(free) \ {Head(free)}) \union {Head(rx)}
    BY <2>1, <2>4, <2>5, TurnFacts DEF BufTypeOK, AllApart
  <2>7. BufTypeOK' /\ AllApart'
    BY <2>1, <2>4, <2>6 DEF BufTypeOK, AllApart
  <2>8. /\ Vals(free') \cap Vals(rx') = {}
        /\ Vals(free') \union Vals(rx') = Vals(free) \union Vals(rx)
    BY <2>2, <2>4, <2>6 DEF Disjoint
  <2>9. Disjoint'
    BY <2>1, <2>8 DEF Disjoint
  <2>10. Kept
    BY <2>1, <2>8 DEF Kept, AllVals
  <2>11. QED
    BY <2>7, <2>9, <2>10
<1>4. CASE RxDropped
  <2>1. /\ rx' = Append(Tail(rx), Head(rx))
        /\ UNCHANGED <<free, tx, events, waiting, ip, app, out>>
    BY <1>4 DEF RxDropped
  <2>2. Head(rx) \in Buffers
    BY TailFacts, PoolAssumption DEF BufTypeOK
  <2>3. /\ Head(rx) \in Vals(rx) /\ rx' \in Seq(Buffers) /\ Len(rx') = NRx /\ Apart(rx')
        /\ Vals(rx') = (Vals(rx) \ {Head(rx)}) \union {Head(rx)}
    BY <2>1, <2>2, RxFacts DEF AllApart
  <2>4. Vals(rx') = Vals(rx)
    BY <2>3
  <2>5. QED
    BY <2>1, <2>3, <2>4 DEF BufTypeOK, AllApart, Disjoint, Kept, AllVals
<1>5. CASE ToSocket
  <2>1. /\ events # <<>> /\ events' = Tail(events)
        /\ waiting' = Append(waiting, Taken)
        /\ UNCHANGED <<free, rx, tx, ip, app, out>>
    BY <1>5 DEF ToSocket, Event
  <2>2. /\ Taken \in Buffers /\ Taken \in Vals(Bufs(events))
        /\ events' \in Seq(EventSet) /\ Apart(Bufs(events'))
        /\ Vals(Bufs(events')) = Vals(Bufs(events)) \ {Taken}
    BY <2>1, TakenFacts DEF BufTypeOK, AllApart
  <2>3. Taken \notin Vals(waiting) /\ One(Taken) = {Taken}
    BY <2>2, NoBufferAssumption DEF Disjoint, One
  <2>4. /\ waiting' \in Seq(Buffers) /\ Apart(waiting')
        /\ Vals(waiting') = Vals(waiting) \union {Taken}
    BY <2>1, <2>2, <2>3, AppendFacts DEF BufTypeOK, AllApart
  <2>5. BufTypeOK' /\ AllApart'
    BY <2>1, <2>2, <2>4 DEF BufTypeOK, AllApart
  <2>6. Disjoint' /\ Kept
    BY <2>1, <2>2, <2>4 DEF Disjoint, Kept, AllVals
  <2>7. QED
    BY <2>5, <2>6
<1>6. CASE IpDrops
  <2>1. /\ events # <<>> /\ events' = Tail(events) /\ Release(Taken)
        /\ UNCHANGED <<rx, tx, waiting, ip, app, out>>
    BY <1>6 DEF IpDrops
  <2>2. /\ Taken \in Buffers /\ Taken \in Vals(Bufs(events))
        /\ events' \in Seq(EventSet) /\ Apart(Bufs(events'))
        /\ Vals(Bufs(events')) = Vals(Bufs(events)) \ {Taken}
    BY <2>1, TakenFacts DEF BufTypeOK, AllApart
  <2>3. Taken \notin Vals(free)
    BY <2>2 DEF Disjoint
  <2>4. /\ free' \in Seq(Buffers) /\ Apart(free')
        /\ Vals(free') = Vals(free) \union {Taken}
    BY <2>1, <2>2, <2>3, ReleaseFacts DEF BufTypeOK, AllApart
  <2>5. BufTypeOK' /\ AllApart'
    BY <2>1, <2>2, <2>4 DEF BufTypeOK, AllApart
  <2>6. Disjoint' /\ Kept
    BY <2>1, <2>2, <2>4 DEF Disjoint, Kept, AllVals
  <2>7. QED
    BY <2>5, <2>6
<1>7. CASE IpSends
  <2>1. /\ events # <<>> /\ events' = Tail(events) /\ ip.step = "idle"
        /\ ip' = [step |-> "clear", buf |-> Taken]
        /\ UNCHANGED <<free, rx, tx, waiting, app, out>>
    BY <1>7 DEF IpSends, Output
  <2>2. /\ Taken \in Buffers /\ Taken \in Vals(Bufs(events))
        /\ events' \in Seq(EventSet) /\ Apart(Bufs(events'))
        /\ Vals(Bufs(events')) = Vals(Bufs(events)) \ {Taken}
    BY <2>1, TakenFacts DEF BufTypeOK, AllApart
  <2>3. ip.buf = None /\ ip'.buf = Taken /\ Taken # None
    BY <2>1, <2>2, NoBufferAssumption DEF BufTypeOK
  <2>4. BufTypeOK' /\ AllApart'
    BY <2>1, <2>2, <2>3 DEF BufTypeOK, AllApart, Places
  <2>5. Disjoint' /\ Kept
    BY <2>1, <2>2, <2>3 DEF Disjoint, Kept, AllVals, One
  <2>6. QED
    BY <2>4, <2>5
<1>8. CASE IpOwnFrame
  <2>1. PICK b \in Buffers : Get(b) /\ ip' = [step |-> "clear", buf |-> b]
    BY <1>8 DEF IpOwnFrame, Output
  <2>2. ip.step = "idle" /\ UNCHANGED <<rx, tx, events, waiting, app, out>>
    BY <1>8 DEF IpOwnFrame
  <2>3. /\ b \in Vals(free) /\ free' \in Seq(Buffers) /\ Apart(free')
        /\ Vals(free') = Vals(free) \ {b}
    BY <2>1, GetFacts DEF BufTypeOK, AllApart
  <2>4. ip.buf = None /\ ip'.buf = b /\ b # None
    BY <2>1, <2>2, NoBufferAssumption DEF BufTypeOK
  <2>5. BufTypeOK' /\ AllApart'
    BY <2>1, <2>2, <2>3, <2>4 DEF BufTypeOK, AllApart, Places
  <2>6. Disjoint' /\ Kept
    BY <2>2, <2>3, <2>4 DEF Disjoint, Kept, AllVals, One
  <2>7. QED
    BY <2>5, <2>6
<1>9. CASE vClearCurrentTxBuffer
  <2>1. /\ ip.step = "clear" /\ ip' = [ip EXCEPT !.step = "send"]
        /\ UNCHANGED <<rx, events, waiting, app, out>>
    BY <1>9 DEF vClearCurrentTxBuffer
  <2>2. /\ ip' \in [step : {"idle", "clear", "send"}, buf : Places]
        /\ ip'.step = "send" /\ ip'.buf = ip.buf /\ ip.buf # None
    BY <2>1 DEF BufTypeOK
  <2>3. CASE UNCHANGED <<free, tx>>
    BY <2>1, <2>2, <2>3 DEF BufTypeOK, AllApart, Disjoint, Kept, AllVals
  <2>4. CASE /\ tx[1].buf # None
             /\ Release(tx[1].buf) /\ tx' = [tx EXCEPT ![1].buf = None]
    <3>1. tx[1].buf \in Buffers /\ tx[1].buf \in Vals(Bufs(tx))
      BY <2>4, TxFacts DEF Descriptor, Places
    <3>2. /\ tx' \in Seq(Descriptor) /\ Len(tx') = NTx /\ Apart(Bufs(tx'))
          /\ Vals(Bufs(tx')) = Vals(Bufs(tx)) \ {tx[1].buf}
      BY <2>4, TxClearFacts DEF AllApart
    <3>3. tx[1].buf \notin Vals(free)
      BY <3>1 DEF Disjoint
    <3>4. /\ free' \in Seq(Buffers) /\ Apart(free')
          /\ Vals(free') = Vals(free) \union {tx[1].buf}
      BY <2>4, <3>1, <3>3, ReleaseFacts DEF BufTypeOK, AllApart
    <3>5. BufTypeOK' /\ AllApart'
      BY <2>1, <2>2, <3>2, <3>4 DEF BufTypeOK, AllApart
    <3>6. Disjoint' /\ Kept
      BY <2>1, <2>2, <3>1, <3>2, <3>4 DEF Disjoint, Kept, AllVals
    <3>7. QED
      BY <3>5, <3>6
  <2>5. QED
    BY <1>9, <2>3, <2>4 DEF vClearCurrentTxBuffer
<1>10. CASE SendFrame
  <2>1. /\ ip.step = "send" /\ ip' = Resting
        /\ UNCHANGED <<rx, events, waiting, app, out>>
    BY <1>10 DEF SendFrame
  <2>2. /\ ip.buf \in Buffers /\ ip.buf # None /\ ip'.buf = None /\ ip'.step = "idle"
        /\ ip' \in [step : {"idle", "clear", "send"}, buf : Places]
    BY <2>1 DEF BufTypeOK, Places, Resting
  <2>3. ip.buf \notin Vals(free) /\ ip.buf \notin Vals(Bufs(tx))
    BY <2>2 DEF Disjoint
  <2>4. CASE Release(ip.buf) /\ UNCHANGED tx
    <3>1. /\ free' \in Seq(Buffers) /\ Apart(free')
          /\ Vals(free') = Vals(free) \union {ip.buf}
      BY <2>2, <2>3, <2>4, ReleaseFacts DEF BufTypeOK, AllApart
    <3>2. BufTypeOK' /\ AllApart'
      BY <2>1, <2>2, <2>4, <3>1 DEF BufTypeOK, AllApart
    <3>3. Disjoint' /\ Kept
      BY <2>1, <2>2, <2>4, <3>1 DEF Disjoint, Kept, AllVals, One
    <3>4. QED
      BY <3>2, <3>3
  <2>5. CASE /\ tx' = Append(Tail(tx), [buf |-> ip.buf, ready |-> TRUE])
             /\ UNCHANGED free
    <3>1. /\ tx' \in Seq(Descriptor) /\ Len(tx') = NTx /\ Apart(Bufs(tx'))
          /\ Vals(Bufs(tx')) = (Vals(Bufs(tx)) \ {tx[1].buf}) \union {ip.buf}
      BY <2>2, <2>3, <2>5, TxTurnFacts DEF AllApart
    <3>2. BufTypeOK' /\ AllApart'
      BY <2>1, <2>2, <2>5, <3>1 DEF BufTypeOK, AllApart
    <3>3. Disjoint'
      <4>1. /\ ip.buf \notin Vals(free) \union Vals(rx) \union Vals(waiting)
                             \union Vals(Bufs(events))
            /\ app.buf # None => app.buf # ip.buf
            /\ out # None => out # ip.buf
        BY <2>2 DEF Disjoint, One
      <4>2. /\ Vals(Bufs(tx')) \subseteq Vals(Bufs(tx)) \union {ip.buf}
            /\ ip'.buf = None
            /\ UNCHANGED <<free, rx, waiting, events, app, out>>
        BY <2>1, <2>2, <2>5, <3>1
      <4>3. ASSUME NEW b \in Vals(Bufs(tx'))
            PROVE  b \notin Vals(free) \union Vals(rx) \union Vals(waiting)
                               \union Vals(Bufs(events))
        BY <4>1, <4>2 DEF Disjoint
      <4>4. /\ app.buf # None => app.buf \notin Vals(Bufs(tx'))
            /\ out # None => out \notin Vals(Bufs(tx'))
        BY <4>1, <4>2 DEF Disjoint
      <4>5. QED
        BY <4>2, <4>3, <4>4 DEF Disjoint, One
    <3>4. AllVals \subseteq AllVals' \union {tx[1].buf}
      BY <2>1, <2>2, <2>5, <3>1 DEF AllVals, One
    <3>5. QED
      BY <2>1, <3>2, <3>3, <3>4
  <2>6. QED
    BY <1>10, <2>4, <2>5 DEF SendFrame
<1>11. CASE FreeRTOS_recvfrom
  <2>1. /\ app.step = "idle" /\ waiting # <<>> /\ waiting' = Tail(waiting)
        /\ app' = [step |-> "serve", buf |-> Head(waiting)]
        /\ UNCHANGED <<free, rx, tx, events, ip, out>>
    BY <1>11 DEF FreeRTOS_recvfrom
  <2>2. /\ Head(waiting) \in Buffers /\ Head(waiting) \in Vals(waiting)
        /\ waiting' \in Seq(Buffers) /\ Apart(waiting')
        /\ Vals(waiting') = Vals(waiting) \ {Head(waiting)}
    BY <2>1, TailFacts, NoBufferAssumption DEF BufTypeOK, AllApart
  <2>3. /\ app.buf = None /\ app'.buf = Head(waiting) /\ app'.buf # None
        /\ app' \in [step : {"idle", "serve"}, buf : Places] /\ app'.step = "serve"
    BY <2>1, <2>2, NoBufferAssumption DEF BufTypeOK, Places
  <2>4. BufTypeOK' /\ AllApart'
    BY <2>1, <2>2, <2>3 DEF BufTypeOK, AllApart
  <2>5. Disjoint' /\ Kept
    BY <2>1, <2>2, <2>3 DEF Disjoint, Kept, AllVals, One
  <2>6. QED
    BY <2>4, <2>5
<1>12. CASE SendSame
  <2>1. /\ app.step = "serve" /\ Put("tx", app.buf) /\ app' = Resting
        /\ UNCHANGED <<free, rx, tx, waiting, ip, out>>
    BY <1>12 DEF SendSame
  <2>2. /\ app.buf \in Buffers /\ app.buf # None /\ app'.buf = None
        /\ app' \in [step : {"idle", "serve"}, buf : Places] /\ app'.step = "idle"
    BY <2>1 DEF BufTypeOK, Places, Resting
  <2>3. app.buf \notin Vals(Bufs(events))
    BY <2>2 DEF Disjoint
  <2>4. /\ events' \in Seq(EventSet) /\ Apart(Bufs(events'))
        /\ Vals(Bufs(events')) = Vals(Bufs(events)) \union {app.buf}
    BY <2>1, <2>2, <2>3, PutFacts DEF BufTypeOK, AllApart
  <2>5. BufTypeOK' /\ AllApart'
    BY <2>1, <2>2, <2>4 DEF BufTypeOK, AllApart
  <2>6. Disjoint' /\ Kept
    BY <2>1, <2>2, <2>4 DEF Disjoint, Kept, AllVals, One
  <2>7. QED
    BY <2>5, <2>6
<1>13. CASE FreeRTOS_ReleaseUDPPayloadBuffer
  <2>1. /\ app.step # "idle" /\ Release(app.buf) /\ app' = Resting
        /\ UNCHANGED <<rx, tx, events, waiting, ip, out>>
    BY <1>13 DEF FreeRTOS_ReleaseUDPPayloadBuffer
  <2>2. /\ app.buf \in Buffers /\ app.buf # None /\ app'.buf = None
        /\ app' \in [step : {"idle", "serve"}, buf : Places] /\ app'.step = "idle"
    BY <2>1 DEF BufTypeOK, Places, Resting
  <2>3. app.buf \notin Vals(free)
    BY <2>2 DEF Disjoint
  <2>4. /\ free' \in Seq(Buffers) /\ Apart(free')
        /\ Vals(free') = Vals(free) \union {app.buf}
    BY <2>1, <2>2, <2>3, ReleaseFacts DEF BufTypeOK, AllApart
  <2>5. BufTypeOK' /\ AllApart'
    BY <2>1, <2>2, <2>4 DEF BufTypeOK, AllApart
  <2>6. Disjoint' /\ Kept
    BY <2>1, <2>2, <2>4 DEF Disjoint, Kept, AllVals, One
  <2>7. QED
    BY <2>5, <2>6
<1>14. CASE SendCopy
  <2>1. PICK b \in Buffers : Get(b) /\ out' = b
    BY <1>14 DEF SendCopy
  <2>2. out = None /\ UNCHANGED <<rx, tx, events, waiting, ip, app>>
    BY <1>14 DEF SendCopy
  <2>3. /\ b \in Vals(free) /\ free' \in Seq(Buffers) /\ Apart(free')
        /\ Vals(free') = Vals(free) \ {b} /\ b # None
    BY <2>1, GetFacts, NoBufferAssumption DEF BufTypeOK, AllApart
  <2>4. BufTypeOK' /\ AllApart'
    BY <2>1, <2>2, <2>3 DEF BufTypeOK, AllApart, Places
  <2>5. Disjoint' /\ Kept
    BY <2>1, <2>2, <2>3 DEF Disjoint, Kept, AllVals, One
  <2>6. QED
    BY <2>4, <2>5
<1>15. CASE HandOver
  <2>1. /\ out # None /\ out' = None /\ Put("tx", out)
        /\ UNCHANGED <<free, rx, tx, waiting, ip, app>>
    BY <1>15 DEF HandOver
  <2>2. out \in Buffers /\ out \notin Vals(Bufs(events))
    BY <2>1 DEF BufTypeOK, Places, Disjoint
  <2>3. /\ events' \in Seq(EventSet) /\ Apart(Bufs(events'))
        /\ Vals(Bufs(events')) = Vals(Bufs(events)) \union {out}
    BY <2>1, <2>2, PutFacts DEF BufTypeOK, AllApart
  <2>4. BufTypeOK' /\ AllApart'
    BY <2>1, <2>3 DEF BufTypeOK, AllApart, Places
  <2>5. Disjoint' /\ Kept
    BY <2>1, <2>3 DEF Disjoint, Kept, AllVals, One
  <2>6. QED
    BY <2>4, <2>5
<1>16. CASE TxEventLost
  <2>1. /\ out # None /\ out' = None /\ Release(out)
        /\ UNCHANGED <<rx, tx, events, waiting, ip, app>>
    BY <1>16 DEF TxEventLost
  <2>2. out \in Buffers /\ out \notin Vals(free)
    BY <2>1 DEF BufTypeOK, Places, Disjoint
  <2>3. /\ free' \in Seq(Buffers) /\ Apart(free')
        /\ Vals(free') = Vals(free) \union {out}
    BY <2>1, <2>2, ReleaseFacts DEF BufTypeOK, AllApart
  <2>4. BufTypeOK' /\ AllApart'
    BY <2>1, <2>3 DEF BufTypeOK, AllApart, Places
  <2>5. Disjoint' /\ Kept
    BY <2>1, <2>3 DEF Disjoint, Kept, AllVals, One
  <2>6. QED
    BY <2>4, <2>5
<1>17. QED
  BY <1>1, <1>2, <1>3, <1>4, <1>5, <1>6, <1>7, <1>8, <1>9, <1>10, <1>11, <1>12,
     <1>13, <1>14, <1>15, <1>16 DEF BufNext, IpTask, Application

-----------------------------------------------------------------------------
(* What the invariant says of Held.                                        *)

LEMMA HeldFacts ==
  ASSUME BufInv
  PROVE  OneOwner /\ Range(Held) \ {None} = AllVals
<1> DEFINE last == <<ip.buf, IF app.step = "sent" THEN None ELSE app.buf, out>>
           ev == [i \in 1 .. Len(events) |-> events[i].buf]
           ds == [i \in 1 .. NTx |-> tx[i].buf]
           h1 == free \o rx
           h2 == h1 \o waiting
           h3 == h2 \o ev
           h4 == h3 \o ds
<1>1. ev = Bufs(events) /\ ds = Bufs(tx)
  BY DEF BufInv, BufTypeOK, Bufs
<1>2. /\ free \in Seq(Places) /\ rx \in Seq(Places) /\ waiting \in Seq(Places)
      /\ ev \in Seq(Places) /\ ds \in Seq(Places)
  <2>1. Buffers \subseteq Places
    BY DEF Places
  <2>2. /\ free \in Seq(Places) /\ rx \in Seq(Places) /\ waiting \in Seq(Places)
    BY <2>1, SeqMonotonic DEF BufInv, BufTypeOK
  <2>3. ev \in Seq(Places) /\ ds \in Seq(Places)
    BY <1>1, BufPlaces, BufsFacts DEF BufInv, BufTypeOK
  <2>4. QED
    BY <2>2, <2>3
<1>3. /\ last \in Seq(Places)
      /\ Apart(last) /\ Vals(last) = One(ip.buf) \union One(app.buf) \union One(out)
  <2>1. last = <<ip.buf, app.buf, out>> /\ last \in Seq(Places) /\ Len(last) = 3
    BY DEF BufInv, BufTypeOK
  <2>2. \A i \in 1 .. 3 : i = 1 \/ i = 2 \/ i = 3
    OBVIOUS
  <2>3. last[1] = ip.buf /\ last[2] = app.buf /\ last[3] = out
    BY <2>1
  <2>4. /\ ip.buf # None => ip.buf # app.buf /\ ip.buf # out
        /\ app.buf # None => app.buf # out
    BY DEF BufInv, Disjoint, One
  <2>5. Apart(last)
    BY <2>1, <2>2, <2>3, <2>4 DEF Apart
  <2>6. Vals(last) = One(ip.buf) \union One(app.buf) \union One(out)
    BY <2>1, <2>2, <2>3 DEF Vals, One
  <2>7. QED
    BY <2>1, <2>5, <2>6
<1> HIDE DEF last, ev, ds
<1>4. /\ h1 \in Seq(Places) /\ Apart(h1) /\ Vals(h1) = Vals(free) \union Vals(rx)
  BY <1>2, ConcatFacts DEF BufInv, AllApart, Disjoint
<1> HIDE DEF h1
<1>5. /\ h2 \in Seq(Places) /\ Apart(h2) /\ Vals(h2) = Vals(h1) \union Vals(waiting)
  BY <1>2, <1>4, ConcatFacts DEF BufInv, AllApart, Disjoint
<1> HIDE DEF h2
<1>6. /\ h3 \in Seq(Places) /\ Apart(h3) /\ Vals(h3) = Vals(h2) \union Vals(ev)
  BY <1>1, <1>2, <1>4, <1>5, ConcatFacts DEF BufInv, AllApart, Disjoint
<1> HIDE DEF h3
<1>7. /\ h4 \in Seq(Places) /\ Apart(h4) /\ Vals(h4) = Vals(h3) \union Vals(ds)
  BY <1>1, <1>2, <1>4, <1>5, <1>6, ConcatFacts DEF BufInv, AllApart, Disjoint
<1> HIDE DEF h4
<1>8. Vals(h4) \cap Vals(last) = {}
  BY <1>1, <1>3, <1>4, <1>5, <1>6, <1>7 DEF BufInv, Disjoint, One
<1>9. /\ h4 \o last \in Seq(Places) /\ Apart(h4 \o last)
      /\ Vals(h4 \o last) = Vals(h4) \union Vals(last)
  BY <1>3, <1>7, <1>8, ConcatFacts
<1>10. Held = h4 \o last
  BY DEF Held, h4, h3, h2, h1, last, ev, ds
<1>11. OneOwner
  BY <1>9, <1>10 DEF OneOwner, Apart
<1>12. Range(Held) \ {None} = Vals(Held)
  <2>1. DOMAIN Held = 1 .. Len(Held)
    BY <1>9, <1>10
  <2>2. QED
    BY <2>1 DEF Range, Vals
<1>13. Vals(Held) = AllVals
  BY <1>1, <1>3, <1>4, <1>5, <1>6, <1>7, <1>9, <1>10 DEF AllVals
<1>14. QED
  BY <1>11, <1>12, <1>13

HeldInv == BufInv /\ OneOwner /\ Range(Held) \ {None} = AllVals

LEMMA HeldInvHolds ==
  ASSUME ~KeepsSent
  PROVE  BufSpec => []HeldInv
<1>1. BufInv /\ UNCHANGED bufVars => BufInv'
  BY DEF bufVars, BufInv, BufTypeOK, AllApart, Disjoint
<1>2. BufInv /\ [BufNext]_bufVars => BufInv'
  BY <1>1, BufStep
<1>3. BufInv => HeldInv
  BY HeldFacts DEF HeldInv
<1>4. QED
  BY <1>2, <1>3, BufInitInv, PTL DEF BufSpec

\* A buffer has one owner: the pool never has one that a descriptor, a queue
\* or a task has as well, and the controller never works on one that a task
\* reads (FreeRTOS_UDP_IP.c:213-214).
THEOREM BuffersHaveOneOwner ==
  ASSUME ~KeepsSent
  PROVE  BufSpec => []OneOwner
<1>1. HeldInv => OneOwner
  BY DEF HeldInv
<1>2. QED
  BY <1>1, HeldInvHolds, PTL

\* Whatever happens in the image, the only buffer that is ever forgotten is
\* that of the current transmit descriptor, when a frame is sent over it
\* (NetworkInterface.c:279-281).
THEOREM OnlySendingLoses ==
  ASSUME ~KeepsSent
  PROVE  BufSpec => LostBySendOnly
<1> DEFINE lost == (Buffers \cap Range(Held)) \ Range(Held')
<1>1. HeldInv /\ HeldInv' /\ [BufNext]_bufVars =>
        [lost # {} => ip.step = "send" /\ lost = {tx[1].buf}]_bufVars
  <2> SUFFICES ASSUME HeldInv, HeldInv', BufNext, lost # {}
               PROVE  ip.step = "send" /\ lost = {tx[1].buf}
    OBVIOUS
  <2>1. /\ Range(Held) \ {None} = AllVals
        /\ Range(Held') \ {None} = AllVals'
    BY DEF HeldInv
  <2>2. lost \subseteq AllVals \ AllVals'
    BY <2>1, NoBufferAssumption
  <2>3. Kept \/ (ip.step = "send" /\ AllVals \subseteq AllVals' \union {tx[1].buf})
    BY BufStep DEF HeldInv
  <2>4. QED
    BY <2>2, <2>3 DEF Kept
<1>2. QED
  BY <1>1, HeldInvHolds, PTL DEF BufSpec, LostBySendOnly
=============================================================================
