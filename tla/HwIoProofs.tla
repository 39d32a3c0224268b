----------------------------- MODULE HwIoProofs -----------------------------
(***************************************************************************)
(* The safety properties of HwIo, for any number of chips, outputs and     *)
(* callers.  The invariant says what the holder of a chip's mutex is about *)
(* to do, and that nobody else is.                                         *)
(***************************************************************************)
EXTENDS HwIo, TLAPS

Call == [step : {"lock", "load", "store", "request", "unlock"},
         chip : Chips, pin : Pins, on : BOOLEAN, byte : SUBSET Pins]

HwType ==
  /\ image \in [Chips -> SUBSET Pins]
  /\ xfer_req \in [Chips -> BOOLEAN]
  /\ mutex \in [Chips -> {"nobody", "spi"} \cup Callers]
  /\ outputs \in [Chips -> SUBSET Pins]
  /\ spi \in [chip : Chips, step : {"test", "lock", "transfer", "unlock"}]
  /\ dio \in [Callers -> {NoCall} \cup Call]
  /\ wish \in [Chips -> SUBSET Pins]

\* A caller is between DioLock and DioUnlock.
Holds(t, c) ==
  dio[t].step \in {"load", "store", "request", "unlock"} /\ dio[t].chip = c

\* The mutex of a chip names the one task that is at it.
MutexTrue ==
  \A c \in Chips :
    /\ \A t \in Callers : mutex[c] = t <=> Holds(t, c)
    /\ mutex[c] = "spi" <=> spi.chip = c /\ spi.step \in {"transfer", "unlock"}

\* The byte that a caller is about to store is the image still.
ByteFresh ==
  \A t \in Callers : dio[t].step = "store" => dio[t].byte = image[dio[t].chip]

\* A transfer that SpiTransfer has found requested still is.
StillRequested ==
  spi.step \in {"lock", "transfer"} => xfer_req[spi.chip]

\* What a chip does not show is requested, or is about to be.
WillBeShown ==
  \A c \in Chips :
    \/ xfer_req[c]
    \/ outputs[c] = image[c]
    \/ \E t \in Callers : dio[t].step = "request" /\ dio[t].chip = c

HwInv ==
  /\ HwType /\ MutexTrue /\ ByteFresh /\ StillRequested /\ WillBeShown
  /\ image = wish

LEMMA NextChipIsOne ==
  ASSUME NEW c \in Chips
  PROVE  (c + 1) % NChips \in Chips
BY ChipsAssumption, SMT DEF Chips

\* A step of SpiMainFunction within one chip.
LEMMA ThenFacts ==
  ASSUME HwType, NEW s \in {"test", "lock", "transfer", "unlock"}, Then(s)
  PROVE  /\ spi' \in [chip : Chips, step : {"test", "lock", "transfer", "unlock"}]
         /\ spi'.step = s /\ spi'.chip = spi.chip
BY DEF Then, HwType

LEMMA NextChipFacts ==
  ASSUME HwType, NextChip
  PROVE  /\ spi' \in [chip : Chips, step : {"test", "lock", "transfer", "unlock"}]
         /\ spi'.step = "test"
<1>1. (spi.chip + 1) % NChips \in Chips
  BY NextChipIsOne DEF HwType
<1>2. QED
  BY <1>1 DEF NextChip

\* A step of a caller within DioWrite.
LEMMA GoFacts ==
  ASSUME HwType, NEW t \in Callers, dio[t].step # "none",
         NEW s \in {"lock", "load", "store", "request", "unlock"}, Go(t, s)
  PROVE  /\ dio[t] \in Call
         /\ dio' \in [Callers -> {NoCall} \cup Call]
         /\ dio'[t].step = s /\ dio'[t].chip = dio[t].chip
         /\ dio'[t].byte = dio[t].byte
         /\ \A u \in Callers : u # t => dio'[u] = dio[u]
<1>1. dio[t] \in Call
  BY DEF HwType, NoCall
<1>2. /\ dio'[t] = [dio[t] EXCEPT !.step = s]
      /\ \A u \in Callers : u # t => dio'[u] = dio[u]
      /\ DOMAIN dio' = Callers /\ dio' = [u \in Callers |-> dio'[u]]
  BY DEF HwType, Go
<1>3. /\ dio'[t] \in Call /\ dio'[t].step = s /\ dio'[t].chip = dio[t].chip
      /\ dio'[t].byte = dio[t].byte
  BY <1>1, <1>2 DEF Call
<1>4. QED
  BY <1>1, <1>2, <1>3 DEF HwType

LEMMA InitHolds == HwInit => HwInv
<1> SUFFICES ASSUME HwInit PROVE HwInv
  OBVIOUS
<1>1. 0 \in Chips
  BY ChipsAssumption DEF Chips
<1>2. HwType
  BY <1>1 DEF HwInit, HwType
<1>3. \A t \in Callers : dio[t].step = "none"
  BY DEF HwInit, NoCall
<1>4. MutexTrue
  BY <1>3, CallersAssumption DEF HwInit, MutexTrue, Holds
<1>5. ByteFresh /\ StillRequested /\ WillBeShown /\ image = wish
  BY <1>3 DEF HwInit, ByteFresh, StillRequested, WillBeShown
<1>6. QED
  BY <1>2, <1>4, <1>5 DEF HwInv

\* SpiMainFunction.
LEMMA SpiKeeps ==
  ASSUME HwInv, SpiMainFunction
  PROVE  HwInv'
<1> USE DEF At
<1>0. HwType /\ MutexTrue /\ ByteFresh /\ StillRequested /\ WillBeShown /\ image = wish
  BY DEF HwInv
<1>a. spi.chip \in Chips /\ dio' = dio /\ image' = image /\ wish' = wish
  BY <1>0 DEF HwType, SpiMainFunction, TestRequest, SpiLock, TransferFails,
              TransferOk, SpiUnlock
<1>b. ByteFresh' /\ (image = wish)' /\ (\A t, c : Holds(t, c)' = Holds(t, c))
  BY <1>0, <1>a DEF ByteFresh, Holds
<1>1. CASE TestRequest
  <2>1. UNCHANGED <<xfer_req, mutex, outputs>>
    BY <1>1 DEF TestRequest
  <2>2. CASE xfer_req[spi.chip] /\ Then("lock")
    <3>1. /\ spi' \in [chip : Chips, step : {"test", "lock", "transfer", "unlock"}]
          /\ spi'.step = "lock" /\ spi'.chip = spi.chip
      BY <1>0, <2>2, ThenFacts
    <3>2. HwType'
      BY <1>0, <1>a, <2>1, <3>1 DEF HwType
    <3>3. MutexTrue'
      BY <1>0, <1>1, <1>b, <2>1, <3>1 DEF MutexTrue, TestRequest
    <3>4. StillRequested' /\ WillBeShown'
      BY <1>0, <1>a, <2>1, <2>2, <3>1 DEF StillRequested, WillBeShown
    <3>5. QED
      BY <1>b, <3>2, <3>3, <3>4 DEF HwInv
  <2>3. CASE NextChip
    <3>1. /\ spi' \in [chip : Chips, step : {"test", "lock", "transfer", "unlock"}]
          /\ spi'.step = "test"
      BY <1>0, <2>3, NextChipFacts
    <3>2. HwType'
      BY <1>0, <1>a, <2>1, <3>1 DEF HwType
    <3>3. MutexTrue'
      BY <1>0, <1>1, <1>b, <2>1, <3>1 DEF MutexTrue, TestRequest
    <3>4. StillRequested' /\ WillBeShown'
      BY <1>0, <1>a, <2>1, <3>1 DEF StillRequested, WillBeShown
    <3>5. QED
      BY <1>b, <3>2, <3>3, <3>4 DEF HwInv
  <2>4. QED
    BY <1>1, <2>2, <2>3 DEF TestRequest
<1>2. CASE SpiLock
  <2>1. /\ spi.step = "lock" /\ mutex[spi.chip] = "nobody"
        /\ mutex' = [mutex EXCEPT ![spi.chip] = "spi"]
        /\ UNCHANGED <<xfer_req, outputs>> /\ Then("transfer")
    BY <1>2 DEF SpiLock
  <2>2. /\ spi' \in [chip : Chips, step : {"test", "lock", "transfer", "unlock"}]
        /\ spi'.step = "transfer" /\ spi'.chip = spi.chip
    BY <1>0, <2>1, ThenFacts
  <2>3. /\ mutex' \in [Chips -> {"nobody", "spi"} \cup Callers]
        /\ mutex'[spi.chip] = "spi"
        /\ \A c \in Chips : c # spi.chip => mutex'[c] = mutex[c]
    BY <1>0, <1>a, <2>1 DEF HwType
  <2>4. HwType'
    BY <1>0, <1>a, <2>1, <2>2, <2>3 DEF HwType
  <2>5. MutexTrue'
    BY <1>0, <1>a, <1>b, <2>1, <2>2, <2>3, CallersAssumption DEF MutexTrue
  <2>6. StillRequested' /\ WillBeShown'
    BY <1>0, <1>a, <2>1, <2>2 DEF StillRequested, WillBeShown
  <2>7. QED
    BY <1>b, <2>4, <2>5, <2>6 DEF HwInv
<1>3. CASE TransferFails
  <2>1. PICK shown \in SUBSET Pins : outputs' = [outputs EXCEPT ![spi.chip] = shown]
    BY <1>3 DEF TransferFails
  <2>2. spi.step = "transfer" /\ UNCHANGED <<xfer_req, mutex>> /\ Then("unlock")
    BY <1>3 DEF TransferFails
  <2>3. /\ spi' \in [chip : Chips, step : {"test", "lock", "transfer", "unlock"}]
        /\ spi'.step = "unlock" /\ spi'.chip = spi.chip
    BY <1>0, <2>2, ThenFacts
  <2>4. /\ outputs' \in [Chips -> SUBSET Pins]
        /\ \A c \in Chips : c # spi.chip => outputs'[c] = outputs[c]
    BY <1>0, <1>a, <2>1 DEF HwType
  <2>5. HwType'
    BY <1>0, <1>a, <2>2, <2>3, <2>4 DEF HwType
  <2>6. MutexTrue'
    BY <1>0, <1>b, <2>2, <2>3 DEF MutexTrue
  <2>7. StillRequested'
    BY <2>3 DEF StillRequested
  <2>8. WillBeShown'
    BY <1>0, <1>a, <2>2, <2>4 DEF WillBeShown, StillRequested
  <2>9. QED
    BY <1>b, <2>5, <2>6, <2>7, <2>8 DEF HwInv
<1>4. CASE TransferOk
  <2>1. /\ spi.step = "transfer" /\ UNCHANGED mutex /\ Then("unlock")
        /\ outputs' = [outputs EXCEPT ![spi.chip] = image[spi.chip]]
        /\ xfer_req' = [xfer_req EXCEPT ![spi.chip] = FALSE]
    BY <1>4 DEF TransferOk
  <2>2. /\ spi' \in [chip : Chips, step : {"test", "lock", "transfer", "unlock"}]
        /\ spi'.step = "unlock" /\ spi'.chip = spi.chip
    BY <1>0, <2>1, ThenFacts
  <2>3. /\ outputs' \in [Chips -> SUBSET Pins] /\ xfer_req' \in [Chips -> BOOLEAN]
        /\ outputs'[spi.chip] = image[spi.chip]
        /\ \A c \in Chips : c # spi.chip => /\ outputs'[c] = outputs[c]
                                            /\ xfer_req'[c] = xfer_req[c]
    BY <1>0, <1>a, <2>1 DEF HwType
  <2>4. HwType'
    BY <1>0, <1>a, <2>1, <2>2, <2>3 DEF HwType
  <2>5. MutexTrue'
    BY <1>0, <1>b, <2>1, <2>2 DEF MutexTrue
  <2>6. StillRequested'
    BY <2>2 DEF StillRequested
  <2>7. WillBeShown'
    BY <1>0, <1>a, <2>3 DEF WillBeShown
  <2>8. QED
    BY <1>b, <2>4, <2>5, <2>6, <2>7 DEF HwInv
<1>5. CASE SpiUnlock
  <2>1. /\ spi.step = "unlock" /\ NextChip /\ UNCHANGED <<xfer_req, outputs>>
        /\ mutex' = [mutex EXCEPT ![spi.chip] = "nobody"]
    BY <1>5 DEF SpiUnlock
  <2>2. /\ spi' \in [chip : Chips, step : {"test", "lock", "transfer", "unlock"}]
        /\ spi'.step = "test"
    BY <1>0, <2>1, NextChipFacts
  <2>3. /\ mutex' \in [Chips -> {"nobody", "spi"} \cup Callers]
        /\ mutex'[spi.chip] = "nobody"
        /\ \A c \in Chips : c # spi.chip => mutex'[c] = mutex[c]
    BY <1>0, <1>a, <2>1 DEF HwType
  <2>4. HwType'
    BY <1>0, <1>a, <2>1, <2>2, <2>3 DEF HwType
  <2>5. MutexTrue'
    <3>1. \A t \in Callers : ~Holds(t, spi.chip)
      BY <1>0, <1>a, <2>1, CallersAssumption DEF MutexTrue
    <3>2. QED
      BY <1>0, <1>a, <1>b, <2>1, <2>2, <2>3, <3>1, CallersAssumption DEF MutexTrue
  <2>6. StillRequested' /\ WillBeShown'
    BY <1>0, <1>a, <2>1, <2>2 DEF StillRequested, WillBeShown
  <2>7. QED
    BY <1>b, <2>4, <2>5, <2>6 DEF HwInv
<1>6. QED
  BY <1>1, <1>2, <1>3, <1>4, <1>5 DEF SpiMainFunction

\* A call of DioWrite begins.
LEMMA CallKeeps ==
  ASSUME HwInv, NEW t \in Callers, DioWrite(t)
  PROVE  HwInv'
<1>1. HwType /\ MutexTrue /\ ByteFresh /\ StillRequested /\ WillBeShown /\ image = wish
  BY DEF HwInv
<1>2. UNCHANGED <<image, xfer_req, mutex, outputs, spi, wish>> /\ dio[t].step = "none"
  BY DEF DioWrite, In
<1>3. PICK d \in Call : dio' = [dio EXCEPT ![t] = d] /\ d.step = "lock"
  <2>1. PICK c \in Chips, p \in Pins, on \in BOOLEAN :
          dio' = [dio EXCEPT ![t] = [step |-> "lock", chip |-> c, pin |-> p,
                                     on |-> on, byte |-> {}]]
    BY DEF DioWrite
  <2>2. [step |-> "lock", chip |-> c, pin |-> p, on |-> on, byte |-> {}] \in Call
    BY DEF Call
  <2>3. QED
    BY <2>1, <2>2
<1>4. /\ dio' \in [Callers -> {NoCall} \cup Call] /\ dio'[t].step = "lock"
      /\ \A u \in Callers : u # t => dio'[u] = dio[u]
  BY <1>1, <1>3 DEF HwType
<1>5. HwType'
  BY <1>1, <1>2, <1>4 DEF HwType
<1>6. MutexTrue'
  <2>1. \A u \in Callers, c \in Chips : Holds(u, c)' <=> Holds(u, c)
    BY <1>2, <1>4 DEF Holds
  <2>2. QED
    BY <1>1, <1>2, <2>1 DEF MutexTrue
<1>7. ByteFresh' /\ StillRequested' /\ WillBeShown'
  BY <1>1, <1>2, <1>4 DEF ByteFresh, StillRequested, WillBeShown
<1>8. QED
  BY <1>1, <1>2, <1>5, <1>6, <1>7 DEF HwInv

\* The steps of DioWrite, with the mutex of the chip taken and given back.
LEMMA WritingKeeps ==
  ASSUME HwInv, NEW t \in Callers, Writing(t)
  PROVE  HwInv'
<1> DEFINE c == dio[t].chip
<1> USE DEF In
<1>1. HwType /\ MutexTrue /\ ByteFresh /\ StillRequested /\ WillBeShown /\ image = wish
  BY DEF HwInv
<1>2. dio[t].step # "none" /\ dio[t] \in Call /\ c \in Chips /\ spi' = spi
  <2>1. dio[t].step # "none" /\ spi' = spi
    BY DEF Writing, DioLock, DioLoad, DioStore, DioRequest, DioUnlock
  <2>2. dio[t] \in Call
    BY <1>1, <2>1 DEF HwType, NoCall
  <2>3. QED
    BY <2>1, <2>2 DEF Call
<1>3. ASSUME mutex[c] = t
      PROVE  /\ \A u \in Callers : u # t => ~Holds(u, c)
             /\ ~(spi.chip = c /\ spi.step \in {"transfer", "unlock"})
  BY <1>1, <1>2, <1>3, CallersAssumption DEF MutexTrue
<1>4. CASE DioLock(t)
  <2>1. /\ mutex[c] = "nobody" /\ mutex' = [mutex EXCEPT ![c] = t] /\ Go(t, "load")
        /\ UNCHANGED <<image, xfer_req, outputs, wish>> /\ dio[t].step = "lock"
    BY <1>4 DEF DioLock
  <2>2. /\ dio' \in [Callers -> {NoCall} \cup Call]
        /\ dio'[t].step = "load" /\ dio'[t].chip = c
        /\ \A u \in Callers : u # t => dio'[u] = dio[u]
    BY <1>1, <1>2, <2>1, GoFacts
  <2>3. /\ mutex' \in [Chips -> {"nobody", "spi"} \cup Callers] /\ mutex'[c] = t
        /\ \A k \in Chips : k # c => mutex'[k] = mutex[k]
    BY <1>1, <1>2, <2>1 DEF HwType
  <2>4. HwType'
    BY <1>1, <1>2, <2>1, <2>2, <2>3 DEF HwType
  <2>5. MutexTrue'
    <3>1. \A u \in Callers, k \in Chips :
            Holds(u, k)' <=> Holds(u, k) \/ (u = t /\ k = c)
      BY <2>1, <2>2 DEF Holds
    <3>2. QED
      BY <1>1, <1>2, <2>1, <2>3, <3>1, CallersAssumption DEF MutexTrue
  <2>6. ByteFresh' /\ StillRequested' /\ WillBeShown'
    BY <1>1, <1>2, <2>1, <2>2 DEF ByteFresh, StillRequested, WillBeShown
  <2>7. QED
    BY <1>1, <2>1, <2>4, <2>5, <2>6 DEF HwInv
<1>5. CASE DioLoad(t)
  <2>1. /\ dio' = [dio EXCEPT ![t].step = "store", ![t].byte = image[c]]
        /\ UNCHANGED <<image, xfer_req, mutex, outputs, wish>> /\ dio[t].step = "load"
    BY <1>5 DEF DioLoad
  <2>2. /\ dio' \in [Callers -> {NoCall} \cup Call]
        /\ dio'[t].step = "store" /\ dio'[t].chip = c /\ dio'[t].byte = image[c]
        /\ \A u \in Callers : u # t => dio'[u] = dio[u]
    <3>1. /\ dio'[t] = [dio[t] EXCEPT !.step = "store", !.byte = image[c]]
          /\ \A u \in Callers : u # t => dio'[u] = dio[u]
          /\ DOMAIN dio' = Callers /\ dio' = [u \in Callers |-> dio'[u]]
      BY <1>1, <2>1 DEF HwType
    <3>2. image[c] \in SUBSET Pins
      BY <1>1, <1>2 DEF HwType
    <3>3. /\ dio'[t] \in Call /\ dio'[t].step = "store" /\ dio'[t].chip = c
          /\ dio'[t].byte = image[c]
      BY <1>2, <3>1, <3>2 DEF Call
    <3>4. QED
      BY <1>1, <3>1, <3>3 DEF HwType
  <2>3. HwType'
    BY <1>1, <1>2, <2>1, <2>2 DEF HwType
  <2>4. MutexTrue'
    <3>1. \A u \in Callers, k \in Chips : Holds(u, k)' <=> Holds(u, k)
      BY <2>1, <2>2 DEF Holds
    <3>2. QED
      BY <1>1, <1>2, <2>1, <3>1 DEF MutexTrue
  <2>5. ByteFresh' /\ StillRequested' /\ WillBeShown'
    BY <1>1, <1>2, <2>1, <2>2 DEF ByteFresh, StillRequested, WillBeShown
  <2>6. QED
    BY <1>1, <2>1, <2>3, <2>4, <2>5 DEF HwInv
<1>6. CASE DioStore(t)
  <2> DEFINE new == Set(dio[t].byte, dio[t].pin, dio[t].on)
  <2>1. /\ dio[t].step = "store" /\ Go(t, "request")
        /\ image' = [image EXCEPT ![c] = new]
        /\ wish' = [wish EXCEPT ![c] = Set(wish[c], dio[t].pin, dio[t].on)]
        /\ UNCHANGED <<xfer_req, mutex, outputs>>
    BY <1>6 DEF DioStore
  <2>2. /\ dio' \in [Callers -> {NoCall} \cup Call]
        /\ dio'[t].step = "request" /\ dio'[t].chip = c
        /\ \A u \in Callers : u # t => dio'[u] = dio[u]
    BY <1>1, <1>2, <2>1, GoFacts
  <2>3. dio[t].byte = image[c] /\ mutex[c] = t
    BY <1>1, <1>2, <2>1 DEF ByteFresh, MutexTrue, Holds
  <2>4. new \in SUBSET Pins
    BY <1>2 DEF Call, Set
  <2>5. image' = wish' /\ image' \in [Chips -> SUBSET Pins]
    BY <1>1, <1>2, <2>1, <2>3, <2>4 DEF HwType
  <2>6. \A k \in Chips : k # c => image'[k] = image[k]
    BY <1>1, <2>1 DEF HwType
  <2>7. HwType'
    BY <1>1, <1>2, <2>1, <2>2, <2>5 DEF HwType
  <2>8. MutexTrue'
    <3>1. \A u \in Callers, k \in Chips : Holds(u, k)' <=> Holds(u, k)
      BY <2>1, <2>2 DEF Holds
    <3>2. QED
      BY <1>1, <1>2, <2>1, <3>1 DEF MutexTrue
  <2>9. ByteFresh'
    <3>1. ASSUME NEW u \in Callers, dio'[u].step = "store"
          PROVE  dio'[u].byte = image'[dio'[u].chip]
      <4>1. u # t /\ dio'[u] = dio[u]
        BY <2>2, <3>1
      <4>2. dio[u] \in Call /\ dio[u].chip \in Chips
        <5>1. dio[u] \in Call
          BY <1>1, <3>1, <4>1 DEF HwType, NoCall
        <5>2. QED
          BY <5>1 DEF Call
      <4>3. dio[u].chip # c
        BY <1>3, <2>3, <3>1, <4>1 DEF Holds
      <4>4. QED
        BY <1>1, <2>6, <3>1, <4>1, <4>2, <4>3 DEF ByteFresh
    <3>2. QED
      BY <3>1 DEF ByteFresh
  <2>10. StillRequested'
    BY <1>1, <1>2, <2>1 DEF StillRequested
  <2>11. WillBeShown'
    BY <1>1, <1>2, <2>1, <2>2, <2>6 DEF WillBeShown
  <2>12. QED
    BY <2>5, <2>7, <2>8, <2>9, <2>10, <2>11 DEF HwInv
<1>7. CASE DioRequest(t)
  <2>1. /\ dio[t].step = "request" /\ Go(t, "unlock")
        /\ xfer_req' = [xfer_req EXCEPT ![c] = TRUE]
        /\ UNCHANGED <<image, mutex, outputs, wish>>
    BY <1>7 DEF DioRequest
  <2>2. /\ dio' \in [Callers -> {NoCall} \cup Call]
        /\ dio'[t].step = "unlock" /\ dio'[t].chip = c
        /\ \A u \in Callers : u # t => dio'[u] = dio[u]
    BY <1>1, <1>2, <2>1, GoFacts
  <2>3. /\ xfer_req' \in [Chips -> BOOLEAN] /\ xfer_req'[c]
        /\ \A k \in Chips : k # c => xfer_req'[k] = xfer_req[k]
    BY <1>1, <1>2, <2>1 DEF HwType
  <2>4. HwType'
    BY <1>1, <1>2, <2>1, <2>2, <2>3 DEF HwType
  <2>5. MutexTrue'
    <3>1. \A u \in Callers, k \in Chips : Holds(u, k)' <=> Holds(u, k)
      BY <2>1, <2>2 DEF Holds
    <3>2. QED
      BY <1>1, <1>2, <2>1, <3>1 DEF MutexTrue
  <2>6. ByteFresh'
    BY <1>1, <2>1, <2>2 DEF ByteFresh
  <2>7. StillRequested'
    <3>1. spi.chip \in Chips
      BY <1>1 DEF HwType
    <3>2. QED
      BY <1>1, <1>2, <2>3, <3>1 DEF StillRequested
  <2>8. WillBeShown'
    BY <1>1, <2>1, <2>2, <2>3 DEF WillBeShown
  <2>9. QED
    BY <1>1, <2>1, <2>4, <2>5, <2>6, <2>7, <2>8 DEF HwInv
<1>8. CASE DioUnlock(t)
  <2>1. /\ dio[t].step = "unlock" /\ dio' = [dio EXCEPT ![t] = NoCall]
        /\ mutex' = [mutex EXCEPT ![c] = IF mutex[c] = t THEN "nobody" ELSE mutex[c]]
        /\ UNCHANGED <<image, xfer_req, outputs, wish>>
    BY <1>8 DEF DioUnlock
  <2>2. /\ dio' \in [Callers -> {NoCall} \cup Call]
        /\ dio'[t].step = "none"
        /\ \A u \in Callers : u # t => dio'[u] = dio[u]
    BY <1>1, <2>1 DEF HwType, NoCall
  <2>3. mutex[c] = t
    BY <1>1, <1>2, <2>1 DEF MutexTrue, Holds
  <2>4. /\ mutex' \in [Chips -> {"nobody", "spi"} \cup Callers] /\ mutex'[c] = "nobody"
        /\ \A k \in Chips : k # c => mutex'[k] = mutex[k]
    BY <1>1, <1>2, <2>1, <2>3 DEF HwType
  <2>5. HwType'
    BY <1>1, <1>2, <2>1, <2>2, <2>4 DEF HwType
  <2>6. MutexTrue'
    <3>1. \A u \in Callers, k \in Chips : Holds(u, k)' <=> Holds(u, k) /\ u # t
      BY <2>2 DEF Holds
    <3>2. \A k \in Chips : k # c => ~Holds(t, k)
      BY DEF Holds
    <3>3. QED
      BY <1>1, <1>2, <1>3, <2>3, <2>4, <3>1, <3>2, CallersAssumption DEF MutexTrue
  <2>7. ByteFresh' /\ StillRequested' /\ WillBeShown'
    BY <1>1, <1>2, <2>1, <2>2 DEF ByteFresh, StillRequested, WillBeShown
  <2>8. QED
    BY <1>1, <2>1, <2>5, <2>6, <2>7 DEF HwInv
<1>9. QED
  BY <1>4, <1>5, <1>6, <1>7, <1>8 DEF Writing

LEMMA HwInvHolds == HwSpec => []HwInv
<1>1. ASSUME HwInv, [HwNext]_hwVars
      PROVE  HwInv'
  <2>1. CASE UNCHANGED hwVars
    BY <1>1, <2>1 DEF hwVars, HwInv, HwType, MutexTrue, Holds, ByteFresh,
                      StillRequested, WillBeShown
  <2>2. QED
    BY <1>1, <2>1, SpiKeeps, CallKeeps, WritingKeeps DEF HwNext
<1>2. QED
  BY <1>1, InitHolds, PTL DEF HwSpec

-----------------------------------------------------------------------------
(***************************************************************************)
(* No call of DioWrite loses what another one wrote to the same byte: the  *)
(* image of a chip is what was last asked of each of its outputs.          *)
(***************************************************************************)
THEOREM NoWriteIsLost == HwSpec => []NoWriteLost
<1>1. HwInv => NoWriteLost
  BY DEF HwInv, NoWriteLost
<1>2. QED
  BY <1>1, HwInvHolds, PTL

(***************************************************************************)
(* SpiTransfer tests the request before it has the mutex, and yet a chip   *)
(* without a request shows its image: a failed transfer withdraws nothing, *)
(* and one that succeeds withdraws no request made meanwhile.              *)
(***************************************************************************)
THEOREM OutputsShownOrPending == HwSpec => []ShownOrPending
<1>1. HwInv => ShownOrPending
  <2> SUFFICES ASSUME HwInv, NEW c \in Chips, mutex[c] = "nobody", ~xfer_req[c]
               PROVE  outputs[c] = image[c]
    BY DEF ShownOrPending
  <2>1. \A t \in Callers : ~Holds(t, c)
    BY CallersAssumption DEF HwInv, MutexTrue
  <2>2. QED
    BY <2>1 DEF HwInv, WillBeShown, Holds
<1>2. QED
  BY <1>1, HwInvHolds, PTL
=============================================================================
