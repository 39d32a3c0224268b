----------------------------- MODULE PtpProofs ------------------------------
(***************************************************************************)
(* The safety properties of the PTP daemon's port (PtpPort), of the times  *)
(* that it puts together (PtpTimes) and of its clock (PtpClock), for any   *)
(* masters, our clock being any, any capacity of the record of foreign     *)
(* masters, any lengths of the queues and any length of a second.          *)
(***************************************************************************)
EXTENDS PtpPort, PtpTimes, PtpClock, WellFoundedInduction, TLAPS

(***************************************************************************)
(* The port.  A pass of doState sets an event for the next one to find;    *)
(* the invariant says which events can be set at which part of the pass.   *)
(***************************************************************************)
PortStates == {"INITIALIZING", "FAULTY", "LISTENING", "UNCALIBRATED", "SLAVE"}
Parts == {"decide", "follow", "act"}

\* The recommended state of a port that follows a master is SLAVE, until a
\* decision says that it should listen.
Recommended ==
  portState \in Calibrating =>
    rec = "SLAVE" \/ (pc = "follow" /\ rec = "LISTENING")

\* A decision is due only before it is taken.  A good offset of an
\* uncalibrated port is found by the next pass, in which no decision is due:
\* the parent is still the master that the offset is of.
EventsInTurn ==
  /\ "DECIDE" \in flags => /\ pc = "decide" /\ portState \in Operating
                           /\ "SELECTED" \notin flags
  /\ "SELECTED" \in flags => /\ pc # "act" /\ portState = "UNCALIBRATED"
                             /\ rec = "SLAVE" /\ lock = parent

\* A slave whose parent is another than the master it is calibrated to is
\* about to hear of it.
Calibrated ==
  portState = "SLAVE" =>
    \/ lock = parent
    \/ pc = "follow" /\ (rec = "LISTENING" \/ "CHANGED" \in flags)

PortInv ==
  /\ portState \in PortStates /\ pc \in Parts
  /\ Recommended /\ EventsInTurn /\ Calibrated

LEMMA PortInitHolds == PortInit => PortInv
BY DEF PortInit, PortInv, PortStates, Parts, Recommended, EventsInTurn,
       Calibrated, Calibrating

\* toState leads to the state it is asked for.
LEMMA Entered ==
  ASSUME NEW s \in PortStates, toState(s)
  PROVE  /\ portState' = s
         /\ rec' = IF s \in {"INITIALIZING", "LISTENING"} THEN s ELSE rec
BY DEF toState, Enter

LEMMA DecideKeeps ==
  ASSUME PortInv, NoDecision \/ bmc
  PROVE  PortInv'
<1> USE DEF PortInv
<1>1. CASE NoDecision
  <2>1. /\ pc = "decide" /\ pc' = "follow" /\ "DECIDE" \notin flags
        /\ UNCHANGED <<flags, portState, rec, parent, lock>>
    BY <1>1 DEF NoDecision, Stay, masters, EventsInTurn
  <2>2. QED
    BY <2>1 DEF Recommended, EventsInTurn, Calibrated, Parts, Operating
<1>2. CASE bmc
  <2>1. /\ pc = "decide" /\ pc' = "follow" /\ "DECIDE" \in flags
        /\ UNCHANGED <<portState, lock>>
    BY <1>2 DEF bmc
  <2>2. "SELECTED" \notin flags
    BY <2>1 DEF EventsInTurn
  <2>3. /\ rec' \in {"LISTENING", "SLAVE"}
        /\ "DECIDE" \notin flags' /\ "SELECTED" \notin flags'
        /\ rec' = "SLAVE" => parent' = parent \/ "CHANGED" \in flags'
    BY <1>2, <2>2 DEF bmc
  <2>4. portState = "SLAVE" => lock = parent
    BY <2>1 DEF Calibrated
  <2>5. QED
    BY <2>1, <2>3, <2>4 DEF Recommended, EventsInTurn, Calibrated, Parts
<1>3. QED
  BY <1>1, <1>2

LEMMA FollowKeeps ==
  ASSUME PortInv, Follow
  PROVE  PortInv'
<1> USE DEF PortInv, PortStates
<1>1. /\ pc = "follow" /\ pc' = "act" /\ UNCHANGED <<parent, lock>>
      /\ "DECIDE" \notin flags
  BY DEF Follow, masters, EventsInTurn
<1>2. CASE /\ rec = "SLAVE" /\ portState = "UNCALIBRATED"
           /\ flags' = flags \ {"SELECTED", "CHANGED"}
           /\ IF "SELECTED" \in flags THEN toState("SLAVE") ELSE Stay
  <2>1. CASE "SELECTED" \in flags
    <3>1. portState' = "SLAVE" /\ rec' = "SLAVE"
      BY <1>2, <2>1, Entered
    <3>2. lock = parent
      BY <2>1 DEF EventsInTurn
    <3>3. QED
      BY <1>1, <1>2, <3>1, <3>2 DEF Recommended, EventsInTurn, Calibrated, Parts
  <2>2. CASE "SELECTED" \notin flags
    BY <1>1, <1>2, <2>2 DEF Stay, Recommended, EventsInTurn, Calibrated, Parts
  <2>3. QED
    BY <2>1, <2>2
<1>3. CASE /\ rec = "SLAVE" /\ portState = "SLAVE"
           /\ flags' = flags \ {"FAULT", "CHANGED"}
           /\ IF flags' # flags THEN toState("UNCALIBRATED") ELSE Stay
  <2>1. "SELECTED" \notin flags'
    BY <1>3 DEF EventsInTurn
  <2>2. CASE flags' # flags
    <3>1. portState' = "UNCALIBRATED" /\ rec' = "SLAVE"
      BY <1>3, <2>2, Entered
    <3>2. QED
      BY <1>1, <1>3, <2>1, <3>1 DEF Recommended, EventsInTurn, Calibrated, Parts
  <2>3. CASE flags' = flags
    <3>1. "CHANGED" \notin flags
      BY <1>3, <2>3
    <3>2. QED
      BY <1>1, <1>3, <2>1, <2>3, <3>1 DEF Stay, Recommended, EventsInTurn, Calibrated, Parts
  <2>4. QED
    BY <2>2, <2>3
<1>4. CASE /\ rec = "SLAVE" /\ portState \notin Calibrating
           /\ toState("UNCALIBRATED") /\ UNCHANGED flags
  <2>1. portState' = "UNCALIBRATED" /\ rec' = "SLAVE"
    BY <1>4, Entered
  <2>2. "SELECTED" \notin flags
    BY <1>4 DEF EventsInTurn, Calibrating
  <2>3. QED
    BY <1>1, <1>4, <2>1, <2>2 DEF Recommended, EventsInTurn, Calibrated, Parts
<1>5. CASE /\ rec = "LISTENING"
           /\ IF portState # rec THEN toState(rec) ELSE Stay
           /\ UNCHANGED flags
  <2>1. portState' = "LISTENING"
    BY <1>5, Entered DEF Stay
  <2>2. "SELECTED" \notin flags
    BY <1>5 DEF EventsInTurn
  <2>3. QED
    BY <1>1, <1>5, <2>1, <2>2 DEF Recommended, EventsInTurn, Calibrated, Parts, Calibrating
<1>6. CASE rec = "INITIALIZING" /\ Stay /\ UNCHANGED flags
  <2>1. portState \notin Calibrating
    BY <1>6 DEF Recommended
  <2>2. QED
    BY <1>1, <1>6, <2>1 DEF Stay, Recommended, EventsInTurn, Calibrated, Parts, Calibrating
<1>7. QED
  BY <1>2, <1>3, <1>4, <1>5, <1>6 DEF Follow

\* What doState does last leaves both events to the next pass.
LEMMA ActKeeps ==
  ASSUME PortInv, doInit \/ FaultCleared \/ AnnounceTimeout \/ Handle
  PROVE  PortInv'
<1> USE DEF PortInv, PortStates
<1>1. pc = "act" /\ pc' = "decide"
  BY DEF doInit, FaultCleared, AnnounceTimeout, Handle, Nothing, ShortMessage,
         handleAnnounce, SyncOneStep, SyncTwoStep, handleFollowUp, FromParent,
         Heard, Handling, Acting
<1>2. "DECIDE" \notin flags /\ "SELECTED" \notin flags
  BY <1>1 DEF EventsInTurn
<1>3. /\ portState \in Calibrating => rec = "SLAVE"
      /\ portState = "SLAVE" => lock = parent
  BY <1>1 DEF Recommended, Calibrated
<1>4. ASSUME portState' \notin Calibrating, portState' \in PortStates, UNCHANGED flags
      PROVE  PortInv'
  BY <1>1, <1>2, <1>4 DEF Recommended, EventsInTurn, Calibrated, Parts, Calibrating
<1>5. ASSUME UNCHANGED <<portState, rec, parent, lock>>, "SELECTED" \notin flags',
             "DECIDE" \in flags' => portState \in Operating
      PROVE  PortInv'
  BY <1>1, <1>3, <1>5 DEF Recommended, EventsInTurn, Calibrated, Parts
<1>6. CASE doInit
  <2>1. portState' \in {"LISTENING", "FAULTY"} /\ UNCHANGED flags
    BY <1>6, Entered DEF doInit
  <2>2. QED
    BY <1>4, <2>1 DEF Calibrating
<1>7. CASE FaultCleared
  <2>1. portState' = "INITIALIZING" /\ UNCHANGED flags
    BY <1>7, Entered DEF FaultCleared
  <2>2. QED
    BY <1>4, <2>1 DEF Calibrating
<1>8. CASE AnnounceTimeout
  <2>1. portState' = "LISTENING" /\ UNCHANGED flags
    BY <1>8, Entered DEF AnnounceTimeout, Stay
  <2>2. QED
    BY <1>4, <2>1 DEF Calibrating
<1>9. CASE Nothing
  BY <1>2, <1>5, <1>9 DEF Nothing, Stay, masters
<1>10. CASE ShortMessage
  <2>1. portState' = "FAULTY" /\ UNCHANGED flags
    BY <1>10, Entered DEF ShortMessage
  <2>2. QED
    BY <1>4, <2>1 DEF Calibrating
<1>11. ASSUME NEW a \in Announces, handleAnnounce(a)
       PROVE  PortInv'
  <2>1. /\ portState \in Operating /\ flags' = flags \cup {"DECIDE"}
        /\ UNCHANGED <<portState, rec, parent, lock>>
    BY <1>11 DEF handleAnnounce, Handling
  <2>2. QED
    BY <1>2, <1>5, <2>1
<1>12. ASSUME NEW m, FromParent(m), Offset(m)
       PROVE  PortInv'
  <2>1. portState \in Calibrating /\ m = parent /\ UNCHANGED <<portState, rec, parent>>
    BY <1>12 DEF FromParent, Heard, Offset, masters
  <2>2. \/ lock' = m /\ flags' = flags \cup (IF portState = "UNCALIBRATED" THEN {"SELECTED"} ELSE {})
        \/ UNCHANGED <<lock, flags>>
        \/ UNCHANGED lock /\ flags' = flags \cup (IF portState = "SLAVE" THEN {"FAULT"} ELSE {})
    BY <1>12 DEF Offset
  <2>3. "DECIDE" \notin flags'
    BY <1>2, <2>2
  <2>4. "SELECTED" \in flags' => portState = "UNCALIBRATED" /\ lock' = parent
    BY <1>2, <2>1, <2>2
  <2>5. portState = "SLAVE" => lock' = parent
    BY <1>3, <2>1, <2>2
  <2>6. QED
    BY <1>1, <1>3, <2>1, <2>3, <2>4, <2>5 DEF Recommended, EventsInTurn, Calibrated, Parts
<1>13. ASSUME NEW m, SyncTwoStep(m)
       PROVE  PortInv'
  BY <1>2, <1>5, <1>13 DEF SyncTwoStep, masters
<1>14. QED
  BY <1>6, <1>7, <1>8, <1>9, <1>10, <1>11, <1>12, <1>13
     DEF Handle, SyncOneStep, handleFollowUp

LEMMA PortInvHolds == PortSpec => []PortInv
<1>1. ASSUME PortInv, [doState]_portVars
      PROVE  PortInv'
  <2>1. CASE UNCHANGED portVars
    BY <1>1, <2>1 DEF portVars, PortInv, Recommended, EventsInTurn, Calibrated
  <2>2. QED
    BY <1>1, <2>1, DecideKeeps, FollowKeeps, ActKeeps DEF doState
<1>2. QED
  BY <1>1, PortInitHolds, PTL DEF PortSpec

-----------------------------------------------------------------------------
(***************************************************************************)
(* A port that acts as a slave does so of the master whose time last gave  *)
(* a good offset, whatever master it had before, however decisions, clock  *)
(* faults and messages follow each other.                                  *)
(***************************************************************************)
THEOREM SlaveIsCalibrated == PortSpec => []SlaveWhenCalibrated
<1>1. PortInv => SlaveWhenCalibrated
  BY DEF PortInv, Calibrated, SlaveWhenCalibrated
<1>2. QED
  BY <1>1, PortInvHolds, PTL

(***************************************************************************)
(* A port that follows a master goes on asking it for the delay, unless    *)
(* the interval of 0 was drawn that stops the timer: going from one to the *)
(* other of the two states of such a port stops nothing.                   *)
(***************************************************************************)
THEOREM DelayIsAskedFor == PortSpec => []AsksForDelay
<1>1. PortInit => AsksForDelay
  BY DEF PortInit, AsksForDelay, Calibrating
<1>2. ASSUME PortInv, AsksForDelay, [doState]_portVars
      PROVE  AsksForDelay'
  <2>1. CASE UNCHANGED <<portState, delayReq>>
    BY <1>2, <2>1 DEF AsksForDelay
  <2>2. ASSUME NEW s \in PortStates, Enter(s), s = "SLAVE" => portState = "UNCALIBRATED"
        PROVE  AsksForDelay'
    BY <1>2, <2>2 DEF Enter, AsksForDelay, Leaving, Calibrating, Operating, Drawn
  <2>3. ASSUME NEW m, Offset(m) PROVE AsksForDelay'
    BY <1>2, <2>3 DEF Offset, AsksForDelay, Drawn
  <2>4. CASE Follow
    <3>1. \/ Stay
          \/ toState("SLAVE") /\ portState = "UNCALIBRATED"
          \/ toState("UNCALIBRATED")
          \/ rec = "LISTENING" /\ toState("LISTENING")
      BY <2>4 DEF Follow
    <3>2. QED
      BY <2>1, <2>2, <3>1 DEF Stay, toState, PortStates
  <2>5. CASE doInit \/ FaultCleared \/ AnnounceTimeout \/ ShortMessage
    BY <2>1, <2>2, <2>5 DEF doInit, FaultCleared, AnnounceTimeout, ShortMessage, Stay,
                            toState, PortStates
  <2>6. CASE NoDecision \/ bmc \/ Nothing
    BY <2>1, <2>6 DEF NoDecision, bmc, Nothing, Stay
  <2>7. ASSUME NEW a, handleAnnounce(a) PROVE AsksForDelay'
    BY <2>1, <2>7 DEF handleAnnounce
  <2>8. ASSUME NEW m, SyncOneStep(m) \/ SyncTwoStep(m) \/ handleFollowUp(m)
        PROVE  AsksForDelay'
    BY <2>1, <2>3, <2>8 DEF SyncOneStep, SyncTwoStep, handleFollowUp
  <2>9. QED
    BY <1>2, <2>1, <2>4, <2>5, <2>6, <2>7, <2>8 DEF doState, Handle, portVars
<1>3. QED
  BY <1>1, <1>2, PortInvHolds, PTL DEF PortSpec

-----------------------------------------------------------------------------
(* The record that a decision is taken from.  bmc's loop takes it from what *)
(* the round before has taken; that this defines a record for every number  *)
(* of rounds is an induction over the numbers, which is put as one over     *)
(* the set of the numbers that a statement holds for.                       *)

Below == {p \in Nat \X Nat : p[1] < p[2]}

LEMMA BelowWF == IsWellFoundedOn(Below, Nat)
<1>1. OpToRel(<, Nat) = Below
  BY DEF OpToRel, Below
<1>2. QED
  BY <1>1, NatLessThanWellFounded

LEMMA Least ==
  ASSUME NEW T, T \subseteq Nat, T # {}
  PROVE  \E x \in T : \A y \in T : x <= y
<1>1. PICK x \in T : \A y \in T : ~(<<y, x>> \in Below)
  BY BelowWF, WFMin
<1>2. ASSUME NEW y \in T PROVE x <= y
  <2>1. x \in Nat /\ y \in Nat /\ ~(<<y, x>> \in Below)
    BY <1>1
  <2>2. ~(y < x)
    BY <2>1 DEF Below
  <2>3. QED
    BY <2>1, <2>2
<1>3. QED
  BY <1>2

LEMMA Induct ==
  ASSUME NEW S, 0 \in S, \A n \in Nat : n \in S => n + 1 \in S
  PROVE  Nat \subseteq S
<1> SUFFICES ASSUME Nat \ S # {} PROVE FALSE
  OBVIOUS
<1>1. PICK x \in Nat \ S : \A y \in Nat \ S : x <= y
  BY Least
<1>2. x # 0 /\ x - 1 \in Nat /\ x - 1 \in S /\ x = (x - 1) + 1
  BY <1>1
<1>3. QED
  BY <1>1, <1>2

\* The loop of bmc up to record n, when R says which record is taken instead
\* of which.
Passes(g, n, R) ==
  \A k \in 0 .. n :
    g[k] = IF k = 0 THEN 0 ELSE IF <<k, g[k - 1]>> \in R THEN k ELSE g[k - 1]

LEMMA SomePasses ==
  ASSUME NEW R, NEW n \in Nat
  PROVE  \E g : Passes(g, n, R)
<1> DEFINE S == {m \in Nat : \E g : Passes(g, m, R)}
<1>1. 0 \in S
  <2>1. Passes([k \in {0} |-> 0], 0, R)
    BY DEF Passes
  <2>2. QED
    BY <2>1
<1>2. ASSUME NEW m \in Nat, m \in S PROVE m + 1 \in S
  <2>1. PICK g : Passes(g, m, R)
    BY <1>2
  <2> DEFINE v == IF <<m + 1, g[m]>> \in R THEN m + 1 ELSE g[m]
             h == [k \in 0 .. m + 1 |-> IF k = m + 1 THEN v ELSE g[k]]
  <2>2. ASSUME NEW k \in 0 .. m + 1
        PROVE  h[k] = IF k = 0 THEN 0 ELSE IF <<k, h[k - 1]>> \in R THEN k ELSE h[k - 1]
    <3>1. CASE k = m + 1
      <4>1. h[k] = v /\ h[k - 1] = g[m] /\ k # 0 /\ k - 1 = m
        BY <3>1
      <4>2. QED
        BY <3>1, <4>1
    <3>2. CASE k \in 0 .. m
      <4>1. h[k] = g[k] /\ (k # 0 => h[k - 1] = g[k - 1])
        BY <3>2
      <4>2. QED
        BY <2>1, <3>2, <4>1 DEF Passes
    <3>3. QED
      BY <3>1, <3>2
  <2> HIDE DEF h
  <2>3. Passes(h, m + 1, R)
    BY <2>2 DEF Passes
  <2>4. QED
    BY <2>3
<1> HIDE DEF S
<1>3. Nat \subseteq S
  BY <1>1, <1>2, Induct
<1>4. QED
  BY <1>3 DEF S

LEMMA PassesAgree ==
  ASSUME NEW R, NEW n \in Nat, NEW g, NEW m \in Nat, NEW h,
         Passes(g, n, R), Passes(h, m, R), NEW k \in Nat, k <= n, k <= m
  PROVE  g[k] = h[k]
<1> DEFINE S == {j \in Nat : j <= n /\ j <= m => g[j] = h[j]}
<1>1. 0 \in S
  <2>1. 0 \in 0 .. n /\ 0 \in 0 .. m
    OBVIOUS
  <2>2. QED
    BY <2>1 DEF Passes
<1>2. ASSUME NEW j \in Nat, j \in S PROVE j + 1 \in S
  <2> SUFFICES ASSUME j + 1 <= n, j + 1 <= m PROVE g[j + 1] = h[j + 1]
    OBVIOUS
  <2>1. g[j] = h[j]
    BY <1>2
  <2>2. j + 1 \in 0 .. n /\ j + 1 \in 0 .. m /\ j + 1 # 0 /\ (j + 1) - 1 = j
    OBVIOUS
  <2>3. g[j + 1] = IF <<j + 1, g[j]>> \in R THEN j + 1 ELSE g[j]
    BY <2>2 DEF Passes
  <2>4. h[j + 1] = IF <<j + 1, h[j]>> \in R THEN j + 1 ELSE h[j]
    BY <2>2 DEF Passes
  <2>5. QED
    BY <2>1, <2>3, <2>4
<1> HIDE DEF S
<1>3. Nat \subseteq S
  BY <1>1, <1>2, Induct
<1>4. QED
  BY <1>3 DEF S

LEMMA LoopDefined ==
  ASSUME NEW R
  PROVE  \E f : f = [k \in Nat |-> IF k = 0 THEN 0
                                   ELSE IF <<k, f[k - 1]>> \in R THEN k ELSE f[k - 1]]
<1> DEFINE G(n) == CHOOSE g : Passes(g, n, R)
           f == [k \in Nat |-> G(k)[k]]
<1>1. \A n \in Nat : Passes(G(n), n, R)
  BY SomePasses
<1> HIDE DEF G
<1>2. ASSUME NEW k \in Nat
      PROVE  f[k] = IF k = 0 THEN 0 ELSE IF <<k, f[k - 1]>> \in R THEN k ELSE f[k - 1]
  <2>1. f[k] = G(k)[k] /\ (k # 0 => f[k - 1] = G(k - 1)[k - 1])
    OBVIOUS
  <2>2. k # 0 => G(k - 1)[k - 1] = G(k)[k - 1]
    <3>1. SUFFICES ASSUME k # 0 PROVE G(k - 1)[k - 1] = G(k)[k - 1]
      OBVIOUS
    <3>2. k - 1 \in Nat /\ k - 1 <= k /\ k - 1 <= k - 1
      BY <3>1
    <3>3. QED
      BY <1>1, <3>2, PassesAgree
  <2>3. k \in 0 .. k
    OBVIOUS
  <2>4. G(k)[k] = IF k = 0 THEN 0 ELSE IF <<k, G(k)[k - 1]>> \in R THEN k ELSE G(k)[k - 1]
    BY <1>1, <2>3 DEF Passes
  <2>5. QED
    BY <2>1, <2>2, <2>4
<1>3. f = [k \in Nat |-> f[k]]
  OBVIOUS
<1> HIDE DEF f
<1>4. [k \in Nat |-> f[k]]
      = [k \in Nat |-> IF k = 0 THEN 0 ELSE IF <<k, f[k - 1]>> \in R THEN k ELSE f[k - 1]]
  BY <1>2
<1>5. QED
  BY <1>3, <1>4

\* The record that a decision is taken from is one of those heard of.
LEMMA ChosenIsRecord ==
  ASSUME count \in Nat \ {0}
  PROVE  Chosen \in 0 .. count - 1
<1> DEFINE R == {p \in Nat \X Nat : Compare(records[p[1]], records[p[2]]) < 0}
           Loop(f) == [k \in Nat |->
                         IF k = 0 THEN 0
                         ELSE IF Compare(records[k], records[f[k - 1]]) < 0 THEN k
                         ELSE f[k - 1]]
           pick == CHOOSE f : f = Loop(f)
<1>1. PICK f : f = [k \in Nat |-> IF k = 0 THEN 0
                                   ELSE IF <<k, f[k - 1]>> \in R THEN k ELSE f[k - 1]]
  <2> HIDE DEF R
  <2>1. QED BY LoopDefined
<1>2. Nat \subseteq {k \in Nat : f[k] \in 0 .. k}
  <2> DEFINE S == {k \in Nat : f[k] \in 0 .. k}
  <2>1. 0 \in S
    <3> HIDE DEF R
    <3>1. QED BY <1>1
  <2>2. ASSUME NEW k \in Nat, k \in S PROVE k + 1 \in S
    <3>1. f[k + 1] = IF <<k + 1, f[k]>> \in R THEN k + 1 ELSE f[k]
      <4>1. k + 1 \in Nat /\ k + 1 # 0 /\ (k + 1) - 1 = k
        OBVIOUS
      <4> HIDE DEF R
      <4>2. QED BY <1>1, <4>1
    <3>2. QED
      BY <2>2, <3>1
  <2> HIDE DEF S
  <2>3. QED
    BY <2>1, <2>2, Induct DEF S
<1>3. f = Loop(f)
  <2>1. ASSUME NEW k \in Nat, k # 0
        PROVE  <<k, f[k - 1]>> \in R <=> Compare(records[k], records[f[k - 1]]) < 0
    <3>1. k - 1 \in Nat /\ f[k - 1] \in Nat
      BY <1>2, <2>1
    <3>2. QED
      BY <3>1
  <2> HIDE DEF R
  <2>2. [k \in Nat |-> IF k = 0 THEN 0 ELSE IF <<k, f[k - 1]>> \in R THEN k ELSE f[k - 1]]
        = Loop(f)
    BY <2>1
  <2>3. QED
    BY <1>1, <2>2
<1>4. pick = Loop(pick)
  BY <1>3
<1>5. Nat \subseteq {k \in Nat : pick[k] \in 0 .. k}
  <2> DEFINE S == {k \in Nat : pick[k] \in 0 .. k}
  <2> HIDE DEF pick
  <2>1. 0 \in S
    BY <1>4
  <2>2. ASSUME NEW k \in Nat, k \in S PROVE k + 1 \in S
    <3>1. pick[k + 1] \in {k + 1, pick[k]}
      <4>1. k + 1 \in Nat /\ k + 1 # 0 /\ (k + 1) - 1 = k
        OBVIOUS
      <4>2. QED BY <1>4, <4>1
    <3>2. QED
      BY <2>2, <3>1
  <2> HIDE DEF S
  <2>3. QED
    BY <2>1, <2>2, Induct DEF S
<1>6. Chosen = pick[count - 1]
  BY DEF Chosen
<1>7. QED
  <2> HIDE DEF pick
  <2>1. QED BY <1>5, <1>6

-----------------------------------------------------------------------------
(* Whom a port follows.  A record is written before it is counted, or else *)
(* all were written before the count went back to 0; a port that is told   *)
(* to be a slave has heard of a master since.                              *)

RecordsWritten ==
  /\ DOMAIN records = 0 .. Capacity - 1
  /\ count \in 0 .. Capacity /\ next \in 0 .. Capacity - 1
  /\ \/ \A j \in 0 .. Capacity - 1 : records[j] \in Announces
     \/ count <= next /\ \A j \in 0 .. next - 1 : records[j] \in Announces

SlaveOfSome ==
  /\ rec = "SLAVE" => parent \in Masters /\ count > 0
  /\ portState \in Calibrating => announceOn /\ count > 0
  /\ portState = "LISTENING" /\ pc # "follow" => rec # "SLAVE"

FollowInv == PortInv /\ RecordsWritten /\ SlaveOfSome

LEMMA CountedIsWritten ==
  ASSUME RecordsWritten, NEW j \in 0 .. count - 1
  PROVE  records[j] \in Announces
BY PortAssumption DEF RecordsWritten

LEMMA AddForeignKeeps ==
  ASSUME RecordsWritten, NEW a \in Announces, addForeign(a)
  PROVE  RecordsWritten' /\ count' \in Nat /\ count' >= count
<1> DEFINE N == Capacity
<1>1. N \in Nat \ {0} /\ count \in 0 .. N /\ next \in 0 .. N - 1 /\ DOMAIN records = 0 .. N - 1
  BY PortAssumption DEF RecordsWritten
<1>2. CASE Known(a) # {}
  <2>1. /\ records' = [j \in DOMAIN records |-> IF j \in Known(a) THEN a ELSE records[j]]
        /\ UNCHANGED <<count, next>>
    BY <1>2 DEF addForeign
  <2>2. \A j \in DOMAIN records : records[j] \in Announces => records'[j] \in Announces
    BY <2>1
  <2>3. DOMAIN records' = DOMAIN records
    BY <2>1
  <2>4. QED
    BY <1>1, <2>1, <2>2, <2>3 DEF RecordsWritten
<1>3. CASE Known(a) = {}
  <2>1. /\ records' = [records EXCEPT ![next] = a]
        /\ count' = IF count < N THEN count + 1 ELSE count
        /\ next' = (next + 1) % N
    BY <1>3 DEF addForeign
  <2>2. next' = IF next < N - 1 THEN next + 1 ELSE 0
    <3> HIDE DEF N
    <3>1. QED BY <1>1, <2>1
  <2>3. DOMAIN records' = 0 .. N - 1 /\ count' \in 0 .. N /\ next' \in 0 .. N - 1
    BY <1>1, <2>1, <2>2
  <2>4. records'[next] = a /\ \A j \in 0 .. N - 1 : j # next => records'[j] = records[j]
    BY <1>1, <2>1
  <2>5. CASE \A j \in 0 .. N - 1 : records[j] \in Announces
    <3>1. \A j \in 0 .. N - 1 : records'[j] \in Announces
      BY <2>4, <2>5
    <3>2. QED
      BY <1>1, <2>1, <2>3, <3>1 DEF RecordsWritten
  <2>6. CASE count <= next /\ \A j \in 0 .. next - 1 : records[j] \in Announces
    <3>1. \A j \in 0 .. next : records'[j] \in Announces
      <4>1. ASSUME NEW j \in 0 .. next PROVE j = next \/ (j \in 0 .. next - 1 /\ j \in 0 .. N - 1)
        BY <1>1
      <4>2. QED
        BY <2>4, <2>6, <4>1
    <3>2. CASE next < N - 1
      <4>1. next' = next + 1 /\ count' <= next'
        BY <1>1, <2>1, <2>2, <2>6, <3>2
      <4>2. QED
        BY <1>1, <2>1, <2>3, <3>1, <4>1 DEF RecordsWritten
    <3>3. CASE next = N - 1
      BY <1>1, <2>1, <2>3, <3>1, <3>3 DEF RecordsWritten
    <3>4. QED
      BY <1>1, <3>2, <3>3
  <2>7. QED
    BY <2>5, <2>6 DEF RecordsWritten
<1>4. QED
  BY <1>2, <1>3

\* A decision is for a master that was heard of, or for listening.
LEMMA DecisionHeard ==
  ASSUME FollowInv, bmc
  PROVE  FollowInv'
<1>1. PortInv'
  BY DecideKeeps DEF FollowInv
<1>2. RecordsWritten /\ SlaveOfSome /\ pc = "decide" /\ pc' = "follow" /\ portState \in Operating
      /\ UNCHANGED <<portState, announceOn, records, count, next>>
  BY DEF FollowInv, bmc
<1>3. RecordsWritten'
  BY <1>2 DEF RecordsWritten
<1>4. CASE rec' = "LISTENING"
  BY <1>1, <1>2, <1>3, <1>4 DEF FollowInv, SlaveOfSome
<1>5. CASE ~BestMyself /\ rec' = "SLAVE" /\ parent' = records[Chosen].src
  <2>1. count \in Nat \ {0}
    BY <1>2, <1>5, PortAssumption
       DEF BestMyself, Unheard, SlaveOfSome, RecordsWritten, Operating
  <2>2. records[Chosen] \in Announces
    BY <1>2, <2>1, ChosenIsRecord, CountedIsWritten
  <2>3. parent' \in Masters /\ count' > 0
    BY <1>2, <1>5, <2>1, <2>2 DEF Masters
  <2>4. QED
    BY <1>1, <1>2, <1>3, <2>3 DEF FollowInv, SlaveOfSome
<1>6. QED
  BY <1>4, <1>5 DEF bmc

\* The step leaves the masters and what is recommended alone.
LEMMA SameMastersKeeps ==
  ASSUME RecordsWritten, SlaveOfSome, UNCHANGED <<records, count, next, parent>>,
         portState' \in Calibrating => announceOn' /\ count > 0,
         rec' = "SLAVE" => rec = "SLAVE",
         portState' = "LISTENING" /\ pc' # "follow" => rec' # "SLAVE"
  PROVE  RecordsWritten' /\ SlaveOfSome'
<1>1. RecordsWritten'
  BY DEF RecordsWritten
<1>2. SlaveOfSome'
  BY DEF SlaveOfSome
<1>3. QED
  BY <1>1, <1>2

LEMMA FollowOfSome ==
  ASSUME FollowInv, Follow
  PROVE  RecordsWritten' /\ SlaveOfSome'
<1>1. /\ RecordsWritten /\ SlaveOfSome /\ PortInv /\ pc' = "act"
      /\ UNCHANGED <<records, count, next, parent>>
  BY DEF FollowInv, Follow, masters
<1>2. CASE Stay
  <2>1. portState = "LISTENING" => rec # "SLAVE"
    BY <1>2 DEF Follow, Stay, toState, Enter, Calibrating
  <2>2. QED
    BY <1>1, <1>2, <2>1, SameMastersKeeps DEF Stay, SlaveOfSome
<1>3. CASE rec = "SLAVE" /\ \E s \in Calibrating : toState(s)
  <2>1. PICK s \in Calibrating : toState(s)
    BY <1>3
  <2>2. portState' = s
    BY <2>1 DEF toState, Enter
  <2>3. count > 0
    BY <1>1, <1>3 DEF SlaveOfSome
  <2>4. announceOn'
    <3>1. CASE portState \in Calibrating
      BY <1>1, <2>1, <3>1 DEF toState, Enter, Leaving, SlaveOfSome
    <3>2. CASE s = "UNCALIBRATED"
      BY <2>1, <3>2 DEF toState, Enter
    <3>3. CASE s = "SLAVE" /\ portState \notin Calibrating
      BY <1>3, <2>1, <2>2, <3>3 DEF Follow, toState, Enter, Stay, Calibrating
    <3>4. QED
      BY <3>1, <3>2, <3>3 DEF Calibrating
  <2>5. QED
    BY <1>1, <1>3, <2>2, <2>3, <2>4, SameMastersKeeps DEF Calibrating
<1>4. CASE rec = "LISTENING" /\ toState("LISTENING")
  <2>1. portState' = "LISTENING" /\ rec' = "LISTENING"
    BY <1>4 DEF toState, Enter
  <2>2. QED
    BY <1>1, <2>1, SameMastersKeeps DEF Calibrating
<1>5. QED
  BY <1>2, <1>3, <1>4 DEF Follow, Calibrating

LEMMA ActOfSome ==
  ASSUME FollowInv, doInit \/ FaultCleared \/ AnnounceTimeout \/ Handle
  PROVE  RecordsWritten' /\ SlaveOfSome'
<1>1. RecordsWritten /\ SlaveOfSome /\ PortInv
  BY DEF FollowInv
<1>2. pc = "act" /\ pc' = "decide"
  BY DEF doInit, FaultCleared, AnnounceTimeout, Handle, Nothing, ShortMessage,
         handleAnnounce, SyncOneStep, SyncTwoStep, handleFollowUp, FromParent,
         Heard, Handling, Acting
<1>3. ASSUME UNCHANGED <<portState, rec, records, count, next, parent>>,
             announceOn => announceOn'
      PROVE  RecordsWritten' /\ SlaveOfSome'
  BY <1>1, <1>2, <1>3, SameMastersKeeps DEF SlaveOfSome
\* The masters are forgotten.
<1>4. ASSUME count' = 0, next' \in {0, next}, UNCHANGED records,
             portState' = "LISTENING", rec' # "SLAVE"
      PROVE  RecordsWritten' /\ SlaveOfSome'
  <2>1. /\ DOMAIN records' = 0 .. Capacity - 1
        /\ count' \in 0 .. Capacity /\ next' \in 0 .. Capacity - 1
    BY <1>1, <1>4, PortAssumption DEF RecordsWritten
  <2>2. \/ \A j \in 0 .. Capacity - 1 : records'[j] \in Announces
        \/ count' <= next' /\ \A j \in 0 .. next' - 1 : records'[j] \in Announces
    <3>1. CASE next' = 0
      BY <1>4, <3>1
    <3>2. CASE next' = next
      <4>1. count' <= next'
        BY <2>1, <1>4
      <4>2. QED
        BY <1>1, <1>4, <3>2, <4>1 DEF RecordsWritten
    <3>3. QED
      BY <1>4, <3>1, <3>2
  <2>3. RecordsWritten'
    BY <2>1, <2>2 DEF RecordsWritten
  <2>4. QED
    BY <1>4, <2>3 DEF SlaveOfSome, Calibrating
<1>5. ASSUME NEW s \in {"FAULTY", "INITIALIZING"}, toState(s),
             UNCHANGED <<records, count, next, parent>>
      PROVE  RecordsWritten' /\ SlaveOfSome'
  <2>1. portState' = s /\ (rec' = "SLAVE" => rec = "SLAVE")
    BY <1>5 DEF toState, Enter
  <2>2. QED
    BY <1>1, <2>1, <1>5, SameMastersKeeps DEF Calibrating
<1>6. CASE doInit
  BY <1>4, <1>5, <1>6 DEF doInit, toState, Enter
<1>7. CASE FaultCleared
  BY <1>5, <1>7 DEF FaultCleared, masters
<1>8. CASE AnnounceTimeout
  BY <1>1, <1>2, <1>4, <1>8 DEF AnnounceTimeout, Stay, toState, Enter, SlaveOfSome
<1>9. CASE Nothing
  BY <1>3, <1>9 DEF Nothing, Stay, masters
<1>10. CASE ShortMessage
  BY <1>5, <1>10 DEF ShortMessage, masters
<1>11. ASSUME NEW a \in Announces, handleAnnounce(a)
       PROVE  RecordsWritten' /\ SlaveOfSome'
  <2>1. UNCHANGED <<portState, rec, parent>> /\ (announceOn => announceOn')
    BY <1>11 DEF handleAnnounce
  <2>2. CASE UNCHANGED <<records, count, next>>
    BY <1>3, <2>1, <2>2
  <2>3. CASE addForeign(a)
    <3>1. RecordsWritten' /\ (count > 0 => count' > 0)
      <4>1. RecordsWritten' /\ count' \in Nat /\ count' >= count
        BY <1>1, <2>3, AddForeignKeeps
      <4>2. count \in Nat
        BY <1>1, PortAssumption DEF RecordsWritten
      <4>3. QED
        BY <4>1, <4>2
    <3>2. QED
      BY <1>1, <1>2, <2>1, <3>1 DEF SlaveOfSome
  <2>4. QED
    BY <1>11, <2>2, <2>3 DEF handleAnnounce
<1>12. ASSUME NEW m, SyncOneStep(m) \/ SyncTwoStep(m) \/ handleFollowUp(m)
       PROVE  RecordsWritten' /\ SlaveOfSome'
  BY <1>3, <1>12 DEF SyncOneStep, SyncTwoStep, handleFollowUp, Offset, masters
<1>13. QED
  BY <1>6, <1>7, <1>8, <1>9, <1>10, <1>11, <1>12 DEF Handle

LEMMA FollowInvHolds == PortSpec => []FollowInv
<1>1. PortInit => FollowInv
  BY PortInitHolds, PortAssumption
     DEF PortInit, FollowInv, RecordsWritten, SlaveOfSome, Calibrating
<1>2. ASSUME FollowInv, [doState]_portVars
      PROVE  FollowInv'
  <2>1. PortInv'
    BY <1>2, DecideKeeps, FollowKeeps, ActKeeps
       DEF FollowInv, doState, portVars, PortInv, Recommended, EventsInTurn, Calibrated
  <2>2. CASE NoDecision
    <3>1. RecordsWritten' /\ SlaveOfSome'
      BY <1>2, <2>2, SameMastersKeeps DEF FollowInv, NoDecision, Stay, masters, SlaveOfSome
    <3>2. QED
      BY <2>1, <3>1 DEF FollowInv
  <2>3. CASE UNCHANGED portVars
    <3>1. RecordsWritten' /\ SlaveOfSome'
      BY <1>2, <2>3, SameMastersKeeps DEF FollowInv, portVars, SlaveOfSome
    <3>2. QED
      BY <2>1, <3>1 DEF FollowInv
  <2>4. QED
    BY <1>2, <2>1, <2>2, <2>3, DecisionHeard, FollowOfSome, ActOfSome DEF doState, FollowInv
<1>3. QED
  BY <1>1, <1>2, PTL DEF PortSpec

(***************************************************************************)
(* A port that follows a master has heard of one since it last listened:   *)
(* its parent is a master that announced itself, a record is left for the  *)
(* next decision, and the timer runs that finds the master silent; for any *)
(* masters that announce themselves and any room for their records.        *)
(***************************************************************************)
THEOREM SomeoneIsFollowed == PortSpec => []FollowsSomeone
<1>1. FollowInv => FollowsSomeone
  BY DEF FollowInv, PortInv, Recommended, SlaveOfSome, FollowsSomeone
<1>2. QED
  BY <1>1, FollowInvHolds, PTL

-----------------------------------------------------------------------------
(* The times of PtpTimes, for any masters and any lengths of the queues.   *)
(* Setting the clock leaves no time behind that was read before, but one   *)
(* that the rx task holds: what is in the event queue is not past, nor is  *)
(* a Sync that waits for its Follow_Up.  Of the answers in the general     *)
(* queue, those that are not late are to requests sent since.              *)

Lately    == {"now", "caught"}
FreshSync == [from : Senders, num : SeqNumbers, read : Lately]
FollowUp  == [kind : {"follow"}, from : Senders, num : SeqNumbers]
Response  == [kind : {"resp"}, from : Senders, age : 0 .. MaxAge, late : BOOLEAN]
Waiting   == [waiting : {TRUE}, from : Senders, num : SeqNumbers, read : Lately,
              moved : BOOLEAN]

\* The messages in q when n requests have been sent since the clock was set.
Answered(q, n) ==
  /\ q \in Seq(FollowUp \cup Response)
  /\ \A i \in 1 .. Len(q) :
       q[i].kind = "resp" /\ ~q[i].late => q[i].age < n \/ q[i].age = MaxAge

\* A past stamp of the last request: none has been sent since.
Stamped(s, n) ==
  s \in {"now", "past", "older"} /\ n \in 0 .. MaxAge /\ (s = "past" => n = 0)

PortTimes ==
  /\ following \in {"no", "UNCALIBRATED", "SLAVE"} /\ master \in Senders
  /\ incoming \in Seq(FreshSync) /\ eventQ \in Seq(FreshSync)
  /\ lastSync \in {NoSync} \cup Waiting
  /\ lastSync.waiting => Taking /\ (lastSync.from = master \/ lastSync.moved)
  /\ Tms \in Lately \cup {"none"}

RequestTimes ==
  /\ sequence \in SeqNumbers
  /\ Stamped(delayReqSend, since)
  /\ Answered(generalQ, since)

TimesInv == PortTimes /\ RequestTimes

LEMMA OneMoreIsLater ==
  ASSUME NEW a \in 0 .. MaxAge
  PROVE  OneMore(a) \in 1 .. MaxAge
BY TimesAssumption DEF OneMore

\* A Sync that is waited for, and none.
LEMMA WaitingTells ==
  /\ ~NoSync.waiting
  /\ \A x \in Waiting : x.waiting /\ x.read \in Lately
<1>1. ~NoSync.waiting
  BY DEF NoSync
<1>2. QED
  BY <1>1 DEF Waiting

\* Of a message that the rx task holds when the clock is set.
LEMMA CaughtIsFresh ==
  ASSUME NEW q \in Seq(FreshSync)
  PROVE  Caught(q) \in Seq(FreshSync)
<1>1. DOMAIN q = 1 .. Len(q) /\ Len(q) \in Nat /\ \A i \in 1 .. Len(q) : q[i] \in FreshSync
  OBVIOUS
<1>2. \A m \in FreshSync : [m EXCEPT !.read = "caught"] \in FreshSync
  BY DEF FreshSync, Lately
<1>3. QED
  BY <1>1, <1>2 DEF Caught

LEMMA NoneAnswered == ASSUME NEW n PROVE Answered(<<>>, n)
BY DEF Answered

LEMMA RestAnswered ==
  ASSUME NEW q, NEW n, Answered(q, n), q # <<>>
  PROVE  Answered(Tail(q), n)
<1>1. Tail(q) \in Seq(FollowUp \cup Response) /\ Len(Tail(q)) = Len(q) - 1
  BY DEF Answered
<1>2. \A i \in 1 .. Len(Tail(q)) : i + 1 \in 1 .. Len(q) /\ Tail(q)[i] = q[i + 1]
  BY <1>1 DEF Answered
<1>3. QED
  BY <1>1, <1>2 DEF Answered

\* Another request: what was asked since is one request further back.
LEMMA OvertakenAnswered ==
  ASSUME NEW q, NEW n \in 0 .. MaxAge, Answered(q, n)
  PROVE  Answered(Overtaken(q), OneMore(n))
<1> DEFINE Later(m) == IF m.kind = "resp" THEN [m EXCEPT !.age = OneMore(@)] ELSE m
<1>1. ASSUME NEW m \in FollowUp PROVE Later(m) \in FollowUp /\ Later(m).kind # "resp"
  BY <1>1 DEF FollowUp
<1>2. ASSUME NEW m \in Response
      PROVE  /\ Later(m) \in Response /\ Later(m).age = OneMore(m.age)
             /\ Later(m).late = m.late
  <2>1. OneMore(m.age) \in 0 .. MaxAge
    BY <1>2, OneMoreIsLater DEF Response
  <2>2. QED
    BY <1>2, <2>1 DEF Response
<1>3. DOMAIN q = 1 .. Len(q) /\ Len(q) \in Nat
  BY DEF Answered
<1>4. Overtaken(q) = [i \in 1 .. Len(q) |-> Later(q[i])]
  BY <1>3 DEF Overtaken
<1>5. \A i \in 1 .. Len(q) : q[i] \in FollowUp \cup Response
  BY DEF Answered
<1>6. \A i \in 1 .. Len(q) : Later(q[i]) \in FollowUp \cup Response
  BY <1>1, <1>2, <1>5
<1> HIDE DEF Later
<1>7. Overtaken(q) \in Seq(FollowUp \cup Response) /\ Len(Overtaken(q)) = Len(q)
  BY <1>3, <1>4, <1>6
<1>8. ASSUME NEW i \in 1 .. Len(q),
             Overtaken(q)[i].kind = "resp", ~Overtaken(q)[i].late
      PROVE  Overtaken(q)[i].age < OneMore(n) \/ Overtaken(q)[i].age = MaxAge
  <2>1. Overtaken(q)[i] = Later(q[i])
    BY <1>4
  <2>2. q[i] \in Response
    BY <1>1, <1>5, <1>8, <2>1
  <2>3. Later(q[i]).age = OneMore(q[i].age) /\ ~q[i].late /\ q[i].kind = "resp"
    BY <1>2, <1>8, <2>1, <2>2 DEF Response
  <2>4. q[i].age \in 0 .. MaxAge /\ (q[i].age < n \/ q[i].age = MaxAge)
    BY <2>2, <2>3 DEF Answered, Response
  <2>5. QED
    BY <2>1, <2>3, <2>4, TimesAssumption DEF OneMore
<1>9. QED
  BY <1>7, <1>8 DEF Answered

\* What issueDelayReqTimerExpired leaves behind.
LEMMA AskingKeeps ==
  ASSUME RequestTimes, NEW s, NEW r, NEW q, Stamped(s, r), Answered(q, r),
         MayAskForDelay(s, r, q)
  PROVE  RequestTimes'
<1>1. CASE generalQ' = q /\ delayReqSend' = s /\ since' = r /\ UNCHANGED sequence
  BY <1>1 DEF RequestTimes, Answered, Stamped
<1>2. CASE /\ sequence' = (sequence + 1) % NumMod
           /\ delayReqSend' \in {"now", "older"}
           /\ since' = OneMore(r)
           /\ generalQ' = Overtaken(q)
  <2>1. sequence' \in SeqNumbers
    BY <1>2, TimesAssumption DEF RequestTimes, SeqNumbers
  <2>2. r \in 0 .. MaxAge /\ OneMore(r) \in 1 .. MaxAge
    BY OneMoreIsLater DEF Stamped
  <2>3. Answered(generalQ, since)'
    BY <1>2, <2>2, OvertakenAnswered DEF Answered
  <2>4. Stamped(delayReqSend, since)'
    BY <1>2, <2>2, TimesAssumption DEF Stamped
  <2>5. QED
    BY <2>1, <2>3, <2>4 DEF RequestTimes
<1>3. QED
  BY <1>1, <1>2 DEF MayAskForDelay

LEMMA OffsetKeeps ==
  ASSUME TimesInv, NEW t, t.read \in Lately, NEW e \in Seq(FreshSync),
         NEW g, Answered(g, since), UseOffset(t, e, g)
  PROVE  TimesInv'
<1>1. lastSync' = NoSync /\ UNCHANGED <<following, master>>
  BY DEF UseOffset, portStuff
<1>2. PortTimes'
  <2>1. CASE eventQ' = e /\ incoming' = incoming
    <3>1. eventQ' \in Seq(FreshSync) /\ incoming' \in Seq(FreshSync)
      BY <2>1 DEF TimesInv, PortTimes
    <3>2. Tms' \in Lately \cup {"none"}
      BY DEF UseOffset
    <3>3. QED
      BY <1>1, <3>1, <3>2, WaitingTells DEF TimesInv, PortTimes
  <2>2. CASE eventQ' = <<>> /\ incoming' = Caught(incoming)
    <3>1. eventQ' \in Seq(FreshSync)
      BY <2>2
    <3>2. incoming' \in Seq(FreshSync)
      BY <2>2, CaughtIsFresh DEF TimesInv, PortTimes
    <3>3. Tms' \in Lately \cup {"none"}
      BY DEF UseOffset
    <3>4. QED
      BY <1>1, <3>1, <3>2, <3>3, WaitingTells DEF TimesInv, PortTimes
  <2>3. QED
    BY <2>1, <2>2 DEF UseOffset, QueueEmptied
<1>3. Stamped(delayReqSend, since) /\ Stamped(StampPast, 0)
  BY TimesAssumption DEF TimesInv, RequestTimes, Stamped, StampPast
<1>4. Answered(QueueEmptied(g), 0)
  BY NoneAnswered DEF QueueEmptied
<1>5. RequestTimes'
  BY <1>3, <1>4, AskingKeeps DEF UseOffset, TimesInv
<1>6. QED
  BY <1>2, <1>5 DEF TimesInv

LEMMA TimesInvHolds == TimesSpec => []TimesInv
<1>1. TimesInit => TimesInv
  <2> SUFFICES ASSUME TimesInit PROVE TimesInv
    OBVIOUS
  <2>1. PortTimes
    BY WaitingTells DEF TimesInit, PortTimes, Taking
  <2>2. RequestTimes
    BY NoneAnswered, TimesAssumption DEF TimesInit, RequestTimes, Stamped, SeqNumbers
  <2>3. QED
    BY <2>1, <2>2 DEF TimesInv
<1>2. TimesInv /\ [TimesNext]_timeVars => TimesInv'
  <2> SUFFICES ASSUME TimesInv, [TimesNext]_timeVars PROVE TimesInv'
    OBVIOUS
  <2> USE DEF TimesInv
  \* What most steps leave alone.
  <2>1. ASSUME UNCHANGED reqStuff, Answered(generalQ', since) PROVE RequestTimes'
    BY <2>1 DEF RequestTimes, reqStuff, Stamped, Answered
  <2>2. ASSUME UNCHANGED <<incoming, eventQ, lastSync, Tms, portStuff>> PROVE PortTimes'
    BY <2>2 DEF PortTimes, portStuff, Taking
  <2>3. CASE SyncArrives \/ SyncQueued
    <3>1. incoming' \in Seq(FreshSync)
      <4>1. CASE incoming' = <<>>
        BY <4>1
      <4>2. ASSUME NEW m \in Senders, NEW n \in SeqNumbers,
                   incoming' = <<[from |-> m, num |-> n, read |-> "now"]>>
            PROVE  incoming' \in Seq(FreshSync)
        <5>1. [from |-> m, num |-> n, read |-> "now"] \in FreshSync
          BY DEF FreshSync, Lately
        <5>2. QED
          BY <4>2, <5>1
      <4>3. QED
        BY <2>3, <4>1, <4>2 DEF SyncArrives, SyncQueued
    <3>2. eventQ' \in Seq(FreshSync)
      <4>1. CASE eventQ' = eventQ
        BY <4>1 DEF PortTimes
      <4>2. CASE eventQ' = eventQ \o incoming
        BY <4>2 DEF PortTimes
      <4>3. QED
        BY <2>3, <4>1, <4>2 DEF SyncArrives, SyncQueued
    <3>3. PortTimes'
      BY <2>3, <3>1, <3>2 DEF SyncArrives, SyncQueued, PortTimes, portStuff, Taking
    <3>4. QED
      BY <2>1, <2>3, <3>3 DEF SyncArrives, SyncQueued, RequestTimes
  <2>4. CASE FollowUpArrives
    <3>1. PICK m \in Senders, n \in SeqNumbers :
            generalQ' = Append(generalQ, [kind |-> "follow", from |-> m, num |-> n])
      BY <2>4 DEF FollowUpArrives
    <3> DEFINE f == [kind |-> "follow", from |-> m, num |-> n]
    <3>2. f \in FollowUp /\ f.kind # "resp"
      BY DEF FollowUp
    <3>3. Answered(generalQ', since)
      <4> HIDE DEF f
      <4>1. QED BY <3>1, <3>2 DEF f, RequestTimes, Answered
    <3>4. QED
      BY <2>1, <2>2, <2>4, <3>3 DEF FollowUpArrives
  <2>5. CASE ResponseArrives
    <3>1. PICK m \in Senders, a \in 0 .. MaxAge - 1 :
            generalQ' = Append(generalQ, [kind |-> "resp", from |-> m, age |-> a,
                                          late |-> a >= since])
      BY <2>5 DEF ResponseArrives
    <3> DEFINE r == [kind |-> "resp", from |-> m, age |-> a, late |-> a >= since]
    <3>2. a \in 0 .. MaxAge /\ since \in 0 .. MaxAge
      BY TimesAssumption DEF RequestTimes, Stamped
    <3>3. r \in Response /\ (~r.late => r.age < since)
      <4>1. (a >= since) \in BOOLEAN /\ (~(a >= since) => a < since)
        BY <3>2, TimesAssumption
      <4>2. r.late = (a >= since) /\ r.age = a
        OBVIOUS
      <4>3. r \in Response
        BY <3>2, <4>1 DEF Response
      <4>4. QED
        BY <4>1, <4>2, <4>3
    <3>4. generalQ' = Append(generalQ, r)
      BY <3>1
    <3>5. Answered(generalQ', since)
      <4> HIDE DEF r
      <4>1. QED BY <3>3, <3>4 DEF RequestTimes, Answered
    <3>6. QED
      BY <2>1, <2>2, <2>5, <3>5 DEF ResponseArrives
  <2>6. ASSUME initClock, master' \in Senders,
               following' \in {"no", "UNCALIBRATED", "SLAVE"},
               UNCHANGED <<incoming, reqStuff>>
        PROVE  TimesInv'
    <3>1. PortTimes'
      BY <2>6, WaitingTells DEF initClock, QueueEmptied, PortTimes, Taking
    <3>2. QED
      BY <2>1, <2>6, <3>1, NoneAnswered DEF initClock, QueueEmptied
  <2>7. CASE StartsFollowing
    <3>1. CASE initClock
      BY <2>6, <2>7, <3>1 DEF StartsFollowing
    <3>2. CASE UNCHANGED <<eventQ, generalQ, lastSync, Tms>>
      <4>1. PortTimes'
        BY <2>7, <3>2 DEF StartsFollowing, PortTimes, Taking
      <4>2. QED
        BY <2>1, <2>7, <3>2, <4>1 DEF StartsFollowing, RequestTimes
    <3>3. QED
      BY <2>7, <3>1, <3>2 DEF StartsFollowing
  <2>8. CASE StopsFollowing
    BY <2>6, <2>8 DEF StopsFollowing, PortTimes
  <2>9. CASE Calibrates
    <3>1. PortTimes'
      BY <2>9 DEF Calibrates, PortTimes, Taking
    <3>2. QED
      BY <2>1, <2>9, <3>1 DEF Calibrates, RequestTimes
  <2>10. CASE ParentChanges
    <3>1. /\ lastSync' \in {NoSync} \cup Waiting
          /\ lastSync'.waiting => lastSync'.from = master' \/ lastSync'.moved
      <4>1. CASE lastSync \in Waiting
        <5>1. lastSync' = [lastSync EXCEPT !.moved = master' # lastSync.from]
          BY <2>10, <4>1, WaitingTells DEF ParentChanges
        <5>2. (master' # lastSync.from) \in BOOLEAN
          OBVIOUS
        <5>3. lastSync' \in Waiting /\ lastSync'.from = lastSync.from
              /\ lastSync'.moved = (master' # lastSync.from)
          BY <4>1, <5>1, <5>2 DEF Waiting
        <5>4. QED
          BY <5>3
      <4>2. CASE lastSync = NoSync
        BY <2>10, <4>2, WaitingTells DEF ParentChanges
      <4>3. QED
        BY <4>1, <4>2 DEF PortTimes
    <3>2. PortTimes'
      BY <2>10, <3>1 DEF ParentChanges, PortTimes, Taking
    <3>3. QED
      BY <2>1, <2>10, <3>2 DEF ParentChanges, RequestTimes
  <2>11. eventQ # <<>> => Head(eventQ) \in FreshSync /\ Tail(eventQ) \in Seq(FreshSync)
    BY DEF PortTimes
  <2>12. CASE TakeSync
    <3> DEFINE s == Head(eventQ)
    <3>1. s \in FreshSync /\ s.from = master /\ Taking /\ Tail(eventQ) \in Seq(FreshSync)
      BY <2>11, <2>12 DEF TakeSync
    <3>2. CASE UseOffset(s, Tail(eventQ), generalQ)
      BY <3>1, <3>2, OffsetKeeps DEF FreshSync, RequestTimes
    <3>3. CASE /\ lastSync' = [waiting |-> TRUE, from |-> s.from, num |-> s.num,
                               read |-> s.read, moved |-> FALSE]
               /\ eventQ' = Tail(eventQ)
               /\ UNCHANGED <<portStuff, incoming, generalQ, Tms, reqStuff>>
      <4>1. lastSync' \in Waiting /\ lastSync'.from = master'
        BY <3>1, <3>3 DEF Waiting, FreshSync, portStuff
      <4>2. PortTimes'
        BY <3>1, <3>3, <4>1 DEF PortTimes, portStuff, Taking
      <4>3. QED
        BY <2>1, <3>3, <4>2 DEF RequestTimes
    <3>4. QED
      BY <2>12, <3>2, <3>3 DEF TakeSync
  <2>13. CASE IgnoreSync
    <3>1. PortTimes'
      BY <2>11, <2>13 DEF IgnoreSync, PortTimes, portStuff, Taking
    <3>2. QED
      BY <2>1, <2>13, <3>1 DEF IgnoreSync, RequestTimes
  <2>14. generalQ # <<>> => Answered(Tail(generalQ), since)
    BY RestAnswered DEF RequestTimes
  <2>15. CASE TakeFollowUp
    <3>1. lastSync.read \in Lately
      BY <2>15, WaitingTells DEF TakeFollowUp, PairsUp, PortTimes
    <3>2. QED
      BY <2>14, <2>15, <3>1, OffsetKeeps DEF TakeFollowUp, Hears, PortTimes
  <2>16. CASE TakeOther
    BY <2>1, <2>2, <2>14, <2>16 DEF TakeOther, Hears
  <2>17. CASE UNCHANGED timeVars
    BY <2>1, <2>2, <2>17 DEF timeVars, RequestTimes
  <2>18. QED
    BY <2>3, <2>4, <2>5, <2>7, <2>8, <2>9, <2>10, <2>12, <2>13, <2>15, <2>16, <2>17
       DEF TimesNext
<1>3. QED
  BY <1>1, <1>2, PTL DEF TimesSpec

LEMMA Division ==
  ASSUME NEW x \in Int, NEW m \in Nat \ {0}
  PROVE  x = (x % m) + m * (x \div m)
OBVIOUS

LEMMA NoLessThanOnce ==
  ASSUME NEW n \in Nat, NEW k \in Nat \ {0}
  PROVE  n * k >= n
<1> DEFINE j == k - 1
<1>1. j \in Nat /\ k = j + 1
  OBVIOUS
<1>2. n * j \in Nat
  BY <1>1
<1> HIDE DEF j
<1>3. n * (j + 1) = n * j + n
  BY <1>1
<1>4. QED
  BY <1>1, <1>2, <1>3

\* A number that has not come round: the answer to the last request.
LEMMA NumberTells ==
  ASSUME NEW n \in SeqNumbers, NEW a \in 0 .. NumMod - 1,
         n - 1 = (n - 1 - a) % NumMod
  PROVE  a = 0
<1>1. NumMod \in Nat \ {0} /\ n - 1 \in -1 .. NumMod - 2 /\ n - 1 - a \in Int
  BY TimesAssumption DEF SeqNumbers
<1>2. (n - 1 - a) % NumMod \in 0 .. NumMod - 1
  BY <1>1
<1>3. PICK d \in Int : n - 1 - a = ((n - 1 - a) % NumMod) + NumMod * d
  <2>1. (n - 1 - a) \div NumMod \in Int
    BY <1>1
  <2>2. n - 1 - a = ((n - 1 - a) % NumMod) + NumMod * ((n - 1 - a) \div NumMod)
    BY <1>1, Division
  <2>3. QED
    BY <2>1, <2>2
<1>4. a = NumMod * (-d)
  BY <1>1, <1>3
<1>5. CASE d <= -1
  <2>1. NumMod * (-d) >= NumMod
    BY <1>1, <1>3, <1>5, NoLessThanOnce
  <2>2. QED
    BY <1>1, <1>4, <2>1
<1>6. CASE d >= 1
  <2>1. NumMod * d >= NumMod
    BY <1>1, <1>3, <1>6, NoLessThanOnce
  <2>2. NumMod * (-d) = -(NumMod * d) /\ NumMod * d \in Int
    BY <1>1, <1>3
  <2>3. QED
    BY <1>1, <1>4, <2>1, <2>2
<1>7. QED
  BY <1>1, <1>3, <1>4, <1>5, <1>6

\* Every path delay is computed from one request and its answer, and from
\* times of one setting of the clock, with the escapes that DelayFits of
\* PtpTimes names.
THEOREM DelayOfOneTime == TimesSpec => []DelayFits
<1>1. TimesInv => DelayFits
  <2> SUFFICES ASSUME TimesInv, NEW i \in 1 .. Len(generalQ),
                      MeasuresDelay(generalQ[i]), ~generalQ[i].late,
                      generalQ[i].age < NumMod, delayReqSend # "older"
               PROVE  generalQ[i].age = 0 /\ Tms # "past" /\ delayReqSend = "now"
    BY DEF DelayFits, TimesInv, RequestTimes, Answered
  <2> DEFINE r == generalQ[i]
  <2>1. r \in Response /\ r.kind = "resp"
    BY DEF TimesInv, RequestTimes, Answered, FollowUp, MeasuresDelay, Answers
  <2>2. r.age \in 0 .. NumMod - 1
    BY <2>1, TimesAssumption DEF Response
  <2>3. r.age = 0
    BY <2>2, NumberTells DEF MeasuresDelay, Answers, TimesInv, RequestTimes
  <2>4. since \in 0 .. MaxAge /\ since # 0
    BY <2>1, <2>3, TimesAssumption DEF TimesInv, RequestTimes, Answered, Stamped
  <2>5. QED
    BY <2>3, <2>4 DEF TimesInv, RequestTimes, Stamped, PortTimes, Lately
<1>2. QED
  BY <1>1, TimesInvHolds, PTL

\* An offset that a Follow_Up completes is of one master, unless the parent
\* has changed in between, and not of a time that was in the queue when the
\* clock was set (OffsetFits of PtpTimes).
THEOREM OffsetOfOneMaster == TimesSpec => []OffsetFits
<1>1. TimesInv => OffsetFits
  BY WaitingTells DEF TimesInv, PortTimes, OffsetFits, PairsUp, Lately
<1>2. QED
  BY <1>1, TimesInvHolds, PTL
-----------------------------------------------------------------------------
(* The clock of PtpClock, for every length of a second, of the two windows *)
(* at its ends and of the wait of the interrupt.                           *)

ClockType ==
  /\ timer \in 0 .. Second - 1
  /\ pending \in -1 .. Delay
  /\ time_s \in Nat
  /\ visit \in [s : Nat, ns : 0 .. Second - 1]
  /\ call \in [step : {"none", "timer"}, s : Nat]
  /\ set \in [on : BOOLEAN, s : Nat, due : Nat]
  /\ offset \in Int
  /\ fresh \in BOOLEAN

\* Interrupts are off while a reading goes on.
ReadingAtOnce == call.step = "timer" => call.s = time_s

\* The timer starts again at most once between the two stores.
OneRestart == set.due = set.s \/ (set.on /\ set.due = set.s + 1)

\* A clock that is behind and has an interrupt waiting has just lost one, so
\* that it will not lose another.
BehindJustNow ==
  /\ ~set.on => offset \in {-1, 0, 1}
  /\ ~set.on /\ pending >= 0 /\ offset = -1 => timer = pending

\* While visit tells anything, an interrupt has waited since the timer was 0,
\* and the timer has not started again since a visit in the second counted.
VisitTells ==
  fresh =>
    /\ ~set.on
    /\ pending >= 0 => timer = pending
    /\ visit.s <= time_s
    /\ pending < 0 /\ visit.s = time_s => visit.ns <= timer

ClockInv ==
  ClockType /\ ReadingAtOnce /\ OneRestart /\ BehindJustNow /\ VisitTells /\ ReadExact

\* All the proofs need of the constants.
LEMMA Windows ==
  /\ Second \in Nat /\ Late \in Nat /\ Early \in Nat /\ Delay \in Nat
  /\ Delay < Early /\ Early + Late <= Second /\ 0 < Early
BY ClockAssumption

LEMMA NextTimer ==
  ASSUME NEW n \in 0 .. Second - 1
  PROVE  (n + 1) % Second = IF n < Second - 1 THEN n + 1 ELSE 0
<1> DEFINE M == Second
<1>1. M \in Nat \ {0} /\ n \in 0 .. M - 1
  BY Windows
<1> HIDE DEF M
<1>2. (n + 1) % M = IF n < M - 1 THEN n + 1 ELSE 0
  BY <1>1, SMT
<1>3. QED
  BY <1>2 DEF M

LEMMA OneSecondMore ==
  ASSUME NEW s \in Nat
  PROVE  s * Second \in Nat /\ (s + 1) * Second = s * Second + Second
<1> DEFINE M == Second
<1>1. M \in Nat
  BY Windows
<1> HIDE DEF M
<1>2. s * M \in Nat /\ (s + 1) * M = s * M + M
  BY <1>1, SMT
<1>3. QED
  BY <1>2 DEF M

LEMMA ClockInitHolds == ClockInit => ClockInv
<1> SUFFICES ASSUME ClockInit PROVE ClockInv
  OBVIOUS
<1>1. ClockType
  BY Windows DEF ClockInit, ClockType, NoRead, NotSet
<1>2. ReadingAtOnce /\ OneRestart /\ BehindJustNow /\ VisitTells /\ ReadExact
  BY Windows DEF ClockInit, ReadingAtOnce, OneRestart, BehindJustNow, VisitTells,
                 ReadExact, NoRead, NotSet
<1>3. QED
  BY <1>1, <1>2 DEF ClockInv

LEMMA TickKeeps ==
  ASSUME ClockInv, TimerTick
  PROVE  ClockInv'
<1>1. ClockType /\ ReadingAtOnce /\ OneRestart /\ BehindJustNow /\ VisitTells /\ ReadExact
  BY DEF ClockInv
<1>2. UNCHANGED <<time_s, visit, call, fresh, answer>> /\ pending < Delay
  BY DEF TimerTick
<1>3. CASE timer < Second - 1
  <2>1. timer' = timer + 1 /\ timer' # 0
    BY <1>1, <1>3, NextTimer DEF TimerTick, ClockType
  <2>2. /\ pending' = IF pending >= 0 THEN pending + 1 ELSE -1
        /\ UNCHANGED <<set, offset>>
    BY <2>1 DEF TimerTick
  <2>3. ClockType'
    BY <1>1, <1>2, <1>3, <2>1, <2>2, Windows DEF ClockType
  <2>4. QED
    BY <1>1, <1>2, <2>1, <2>2, <2>3
       DEF ClockInv, ClockType, ReadingAtOnce, OneRestart, BehindJustNow, VisitTells, ReadExact
<1>4. CASE timer = Second - 1
  <2>1. timer' = 0 /\ pending' = 0 /\ set.due = set.s
    BY <1>1, <1>4, NextTimer, Windows DEF TimerTick, ClockType
  <2>2. CASE set.on
    <3>1. set' = [set EXCEPT !.due = set.due + 1] /\ UNCHANGED offset
      BY <2>1, <2>2 DEF TimerTick
    <3>2. /\ set' \in [on : BOOLEAN, s : Nat, due : Nat]
          /\ set'.on /\ set'.due = set'.s + 1
      BY <1>1, <2>1, <2>2, <3>1 DEF ClockType
    <3>3. ClockType'
      BY <1>1, <1>2, <2>1, <3>1, <3>2, Windows DEF ClockType
    <3>4. QED
      BY <1>1, <1>2, <2>1, <2>2, <3>1, <3>2, <3>3
         DEF ClockInv, ReadingAtOnce, OneRestart, BehindJustNow, VisitTells, ReadExact
  <2>3. CASE ~set.on
    <3>1. UNCHANGED set /\ offset' = IF pending >= 0 THEN offset - 1 ELSE offset
      BY <2>1, <2>3 DEF TimerTick
    <3>2. pending >= 0 => offset \in {0, 1}
      BY <1>1, <1>2, <1>4, <2>3, Windows DEF BehindJustNow, ClockType
    <3>3. ClockType'
      BY <1>1, <1>2, <2>1, <3>1, Windows DEF ClockType
    <3>4. offset' \in {-1, 0, 1}
      BY <1>1, <2>3, <3>1, <3>2 DEF BehindJustNow
    <3>5. QED
      BY <1>1, <1>2, <2>1, <2>3, <3>1, <3>3, <3>4
         DEF ClockInv, ReadingAtOnce, OneRestart, BehindJustNow, VisitTells, ReadExact
  <2>4. QED
    BY <2>2, <2>3
<1>5. QED
  BY <1>1, <1>3, <1>4, Windows DEF ClockType

LEMMA CallbackKeeps ==
  ASSUME ClockInv, enet_arriver_callback
  PROVE  ClockInv'
<1>1. ClockType /\ ReadingAtOnce /\ OneRestart /\ BehindJustNow /\ VisitTells /\ ReadExact
  BY DEF ClockInv
<1>2. /\ call.step = "none" /\ pending' = -1 /\ time_s' = time_s + 1
      /\ UNCHANGED <<timer, visit, call, set, fresh, offset, answer>>
  BY DEF enet_arriver_callback
<1>3. ClockType'
  BY <1>1, <1>2, Windows DEF ClockType
<1>4. QED
  BY <1>1, <1>2, <1>3
     DEF ClockInv, ClockType, ReadingAtOnce, OneRestart, BehindJustNow, VisitTells, ReadExact

LEMMA SettingKeeps ==
  ASSUME ClockInv, SetTimer \/ SetSeconds
  PROVE  ClockInv'
<1>1. ClockType /\ ReadingAtOnce /\ OneRestart /\ BehindJustNow /\ VisitTells /\ ReadExact
  BY DEF ClockInv
<1>2. CASE SetTimer
  <2>1. PICK s \in 0 .. MaxTime, ns \in 0 .. Second - 1 :
          timer' = ns /\ set' = [on |-> TRUE, s |-> s, due |-> s]
    BY <1>2 DEF SetTimer
  <2>2. fresh' = FALSE /\ UNCHANGED <<pending, time_s, visit, call, offset, answer>>
    BY <1>2 DEF SetTimer
  <2>3. ClockType'
    <3>1. set' \in [on : BOOLEAN, s : Nat, due : Nat] /\ timer' \in 0 .. Second - 1
      BY <2>1, ClockAssumption
    <3>2. fresh' \in BOOLEAN
      BY <2>2
    <3>3. QED
      BY <1>1, <2>2, <3>1, <3>2 DEF ClockType
  <2>4. QED
    BY <1>1, <2>1, <2>2, <2>3
       DEF ClockInv, ReadingAtOnce, OneRestart, BehindJustNow, VisitTells, ReadExact
<1>3. CASE SetSeconds
  <2>1. /\ set.on /\ call.step = "none" /\ time_s' = set.s
        /\ offset' = Elapsed - time_s + set.s - set.due /\ set' = NotSet
        /\ UNCHANGED <<timer, pending, visit, call, fresh, answer>>
    BY <1>3 DEF SetSeconds
  <2>2. /\ offset' \in {-1, 0, 1}
        /\ pending >= 0 => offset' \in {0, 1}
    BY <1>1, <2>1 DEF OneRestart, Elapsed, ClockType
  <2>3. ClockType'
    BY <1>1, <2>1, <2>2 DEF ClockType, NotSet
  <2>4. QED
    BY <1>1, <2>1, <2>2, <2>3
       DEF ClockInv, ReadingAtOnce, OneRestart, BehindJustNow, VisitTells, ReadExact, NotSet
<1>4. QED
  BY <1>2, <1>3

LEMMA ReadingKeeps ==
  ASSUME ClockInv, ReadSeconds \/ ReadTimer
  PROVE  ClockInv'
<1>1. ClockType /\ ReadingAtOnce /\ OneRestart /\ BehindJustNow /\ VisitTells /\ ReadExact
  BY DEF ClockInv
<1>2. CASE ReadSeconds
  <2>1. /\ call' = [step |-> "timer", s |-> time_s]
        /\ UNCHANGED <<timer, pending, time_s, visit, set, fresh, offset, answer>>
    BY <1>2 DEF ReadSeconds
  <2>2. ClockType'
    BY <1>1, <2>1 DEF ClockType
  <2>3. QED
    BY <1>1, <2>1, <2>2
       DEF ClockInv, ReadingAtOnce, OneRestart, BehindJustNow, VisitTells, ReadExact
<1>3. CASE ReadTimer
  <2> DEFINE ns == IF Restarted THEN timer + Second ELSE timer
  <2>1. /\ call.step = "timer" /\ call' = NoRead
        /\ visit' = IF Restarted THEN visit ELSE [s |-> call.s, ns |-> timer]
        /\ fresh' = (fresh \/ (~set.on /\ pending < 0 /\ ~Restarted))
        /\ UNCHANGED <<timer, pending, time_s, set, offset>>
    BY <1>3 DEF ReadTimer
  <2>2. call.s = time_s /\ time_s \in Nat
    BY <1>1, <2>1 DEF ReadingAtOnce, ClockType
  <2>3. ClockType'
    BY <1>1, <2>1 DEF ClockType, NoRead
  <2>4. fresh => (Restarted => pending >= 0) /\ (pending >= 0 /\ LateVisit => Restarted)
    BY <1>1, <2>2, Windows DEF VisitTells, Restarted, LateVisit, ClockType
  <2>5. VisitTells'
    <3>1. CASE Restarted
      BY <1>1, <2>1, <3>1 DEF VisitTells
    <3>2. CASE ~Restarted
      <4>1. visit'.s = time_s /\ visit'.ns = timer
        <5>1. visit' = [s |-> call.s, ns |-> timer]
          BY <2>1, <3>2
        <5>2. QED
          BY <2>2, <5>1
      <4>2. timer <= timer /\ time_s <= time_s
        BY <1>1 DEF ClockType
      <4>3. ASSUME fresh'
            PROVE  fresh \/ (~set.on /\ pending < 0)
        BY <2>1, <4>3
      <4>4. ASSUME fresh'
            PROVE  ~set.on /\ (pending >= 0 => timer = pending)
        BY <1>1, <4>3, <4>4 DEF VisitTells, ClockType
      <4>5. QED
        BY <1>1, <2>1, <4>1, <4>2, <4>4 DEF VisitTells, ClockType
    <3>3. QED
      BY <3>1, <3>2
  <2>6. ReadExact'
    <3>1. answer' = [value |-> Returned(call.s, ns),
                     true |-> Elapsed * Second + timer,
                     could |-> fresh /\ (pending >= 0 => LateVisit)]
      BY <1>3 DEF ReadTimer
    <3>2. SUFFICES ASSUME fresh, pending >= 0 => LateVisit
                   PROVE  Returned(time_s, ns) = Elapsed * Second + timer
      BY <2>2, <3>1 DEF ReadExact
    <3>3. timer \in 0 .. Second - 1 /\ Second \in Nat
      BY <1>1, Windows DEF ClockType
    <3>4. CASE pending >= 0
      <4>1. ns = timer + Second /\ Elapsed = time_s + 1
        BY <2>4, <3>2, <3>4 DEF Elapsed
      <4>2. Returned(time_s, ns) = time_s * Second + Second + timer
        BY <2>2, <3>3, <4>1, OneSecondMore DEF Returned
      <4>3. QED
        BY <2>2, <3>3, <4>1, <4>2, OneSecondMore
    <3>5. CASE ~(pending >= 0)
      <4>1. ns = timer /\ Elapsed = time_s
        BY <2>2, <2>4, <3>2, <3>5 DEF Elapsed
      <4>2. QED
        BY <3>3, <4>1 DEF Returned
    <3>6. QED
      BY <3>4, <3>5
  <2>7. QED
    BY <1>1, <2>1, <2>3, <2>5, <2>6
       DEF ClockInv, ReadingAtOnce, OneRestart, BehindJustNow, NoRead
<1>4. QED
  BY <1>2, <1>3

LEMMA ClockInvHolds == ClockSpec => []ClockInv
<1>1. ASSUME ClockInv, [ClockNext]_clockVars
      PROVE  ClockInv'
  <2>1. CASE UNCHANGED clockVars
    BY <1>1, <2>1 DEF clockVars, ClockInv, ClockType, ReadingAtOnce, OneRestart,
                      BehindJustNow, VisitTells, ReadExact
  <2>2. QED
    BY <1>1, <2>1, TickKeeps, CallbackKeeps, SettingKeeps, ReadingKeeps DEF ClockNext
<1>2. QED
  BY <1>1, ClockInitHolds, PTL DEF ClockSpec

-----------------------------------------------------------------------------
(***************************************************************************)
(* A reading is right to the unit although the seconds it took may be one  *)
(* behind, if an interrupt never waits longer than the first window, the   *)
(* windows do not overlap, and a visit fell into the last one.             *)
(***************************************************************************)
THEOREM ReadingsAreExact == ClockSpec => []ReadExact
BY ClockInvHolds, PTL DEF ClockInv

(***************************************************************************)
(* Setting the clock with two stores and interrupts on leaves it at most a *)
(* second off, whenever the timer starts again and its interrupt comes.    *)
(***************************************************************************)
THEOREM SetIsWithinASecond == ClockSpec => []SetWithinASecond
<1>1. ClockInv => SetWithinASecond
  BY DEF ClockInv, BehindJustNow, SetWithinASecond
<1>2. QED
  BY <1>1, ClockInvHolds, PTL
=============================================================================
