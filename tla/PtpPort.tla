------------------------------ MODULE PtpPort ------------------------------
(***************************************************************************)
(* The port of the PTP daemon as the image builds it: SLAVE_ONLY, end to   *)
(* end delays, class 255 (src/sample_common/ptp: protocol.c, bmc.c,        *)
(* servo.c, timer.c).  Each pass of doState takes a state decision if one  *)
(* is due, follows the recommended state, and then does what the port's    *)
(* state asks for: as a rule, it handles one message.  Messages come from  *)
(* any master, in any order, at any time; an offset from the master is     *)
(* taken for what the servo makes of it.                                   *)
(*                                                                         *)
(* A master's data set is a record: where it came from, its grandmaster,   *)
(* the rank of that clock (priority 1, class, accuracy, variance and       *)
(* priority 2, in this order), and the steps to it.                        *)
(***************************************************************************)
EXTENDS Naturals

CONSTANTS
  Announces,  \* the data sets that masters announce
  Self,       \* our clock identity
  OwnRank,    \* our clock's rank
  Capacity    \* DEFAULT_MAX_FOREIGN_RECORDS

Masters == {a.src : a \in Announces}

ASSUME PortAssumption ==
  /\ Announces \subseteq [src : Nat \ {0, Self}, gm : Nat \ {Self}, rank : Nat, steps : Nat]
  /\ Self \in Nat \ {0} /\ OwnRank \in Nat
  /\ Capacity \in Nat \ {0}

VARIABLES
  pc,         \* the part of doState that comes next
  portState, rec, \* rec is recommendedState
  flags,      \* events
  records, count, next, best, \* foreignMasterDS (next is its i)
  parent,     \* parentPortIdentity
  announceOn, \* whether ANNOUNCE_RECEIPT_TIMER runs
  delayReq,   \* DELAYREQ_INTERVAL_TIMER: "running", "stopped", or "zero" if
              \* it was started with an interval of 0, which stops it too
  waitingForFollowUp,
  lock,       \* history: the master whose time last gave a good offset
  heard       \* history: the master whose message this pass has handled, or 0

portVars == <<pc, portState, rec, flags, records, count, next, best, parent,
              announceOn, delayReq, waitingForFollowUp, lock, heard>>
masters == <<records, count, next, best, parent>>

NoRecord == [src |-> 0, gm |-> 0, rank |-> 0, steps |-> 0]
Own == [src |-> Self, gm |-> Self, rank |-> OwnRank, steps |-> 0]

\* ptpdStartup has called toState(PTP_INITIALIZING).
PortInit ==
  /\ pc = "decide" /\ portState = "INITIALIZING" /\ rec = "INITIALIZING"
  /\ flags = {}
  /\ records = [j \in 0 .. Capacity - 1 |-> NoRecord]
  /\ count = 0 /\ next = 0 /\ best = 0
  /\ parent = 0
  /\ announceOn = FALSE /\ delayReq = "stopped"
  /\ waitingForFollowUp = FALSE
  /\ lock = 0 /\ heard = 0

Calibrating == {"UNCALIBRATED", "SLAVE"}
Operating == Calibrating \cup {"LISTENING"}

-----------------------------------------------------------------------------
(* toState.                                                                *)

Leaving(s) == portState \in Operating /\ ~(portState \in Calibrating /\ s \in Calibrating)

\* The interval is drawn at random and may be 0.
Drawn == {"running", "zero"}

\* Mutant: a delay request timer is stopped whenever a state is left.
StopAlways(s) ==
  /\ portState' = s
  /\ announceOn' = (s \in {"LISTENING", "UNCALIBRATED"} \/ (~Leaving(s) /\ announceOn))
  /\ delayReq' \in (IF s = "UNCALIBRATED" THEN Drawn ELSE {"stopped"})
  /\ waitingForFollowUp' = (waitingForFollowUp /\ ~Leaving(s))

\* Timers are stopped on leaving a state and started on entering one;
\* initClock forgets a Sync.
Enter(s) ==
  /\ portState' = s
  /\ announceOn' = (s \in {"LISTENING", "UNCALIBRATED"} \/ (~Leaving(s) /\ announceOn))
  /\ delayReq' \in (IF s = "UNCALIBRATED" THEN Drawn
                    ELSE IF Leaving(s) THEN {"stopped"} ELSE {delayReq})
  /\ waitingForFollowUp' = (waitingForFollowUp /\ ~Leaving(s))

toState(s) ==
  Enter(s) /\ rec' = IF s \in {"INITIALIZING", "LISTENING"} THEN s ELSE rec

Stay == UNCHANGED <<portState, rec, announceOn, delayReq, waitingForFollowUp>>

-----------------------------------------------------------------------------
(* The best master clock algorithm.                                        *)

\* 1: A is better, -1: B is (a lower value is better).  A record's source is
\* never the receiver.
Lower(x, y) == IF x < y THEN 1 ELSE IF x > y THEN 0 - 1 ELSE 0
Compare(a, b) ==
  IF a.gm # b.gm
  THEN IF a.rank # b.rank THEN Lower(a.rank, b.rank) ELSE Lower(a.gm, b.gm)
  ELSE IF a.steps # b.steps THEN Lower(a.steps, b.steps) ELSE Lower(a.src, b.src)

\* bmc's loop over the records.
Chosen ==
  LET pick[k \in Nat] ==
        IF k = 0 THEN 0
        ELSE IF Compare(records[k], records[pick[k - 1]]) < 0 THEN k
        ELSE pick[k - 1]
  IN IF count = 0 THEN 0 ELSE pick[count - 1]

NoDecision ==
  /\ pc = "decide" /\ pc' = "follow"
  /\ ~(portState \in Operating /\ "DECIDE" \in flags)
  /\ heard' = 0
  /\ UNCHANGED <<flags, masters, lock>> /\ Stay

\* The port has heard of no master, or none that is better than itself.
Unheard == count = 0 /\ portState = "LISTENING"
BestMyself == Unheard \/ Compare(Own, records[Chosen]) = 1

\* Mutant: a new master goes unnoticed.
NotChanged ==
  /\ pc = "decide" /\ pc' = "follow"
  /\ portState \in Operating /\ "DECIDE" \in flags
  /\ best' = Chosen /\ flags' = flags \ {"DECIDE"}
  /\ IF BestMyself
     THEN rec' = "LISTENING" /\ parent' = IF Unheard THEN parent ELSE Self
     ELSE rec' = "SLAVE" /\ parent' = records[Chosen].src
  /\ heard' = 0
  /\ UNCHANGED <<portState, announceOn, delayReq, waitingForFollowUp, records, count, next, lock>>

\* bmc with m2 or s1; a slave-only clock listens when it should be master.
bmc ==
  /\ pc = "decide" /\ pc' = "follow"
  /\ portState \in Operating /\ "DECIDE" \in flags
  /\ best' = Chosen
  /\ \/ /\ BestMyself /\ rec' = "LISTENING"
        /\ parent' = IF Unheard THEN parent ELSE Self
        /\ flags' = flags \ {"DECIDE"}
     \/ /\ ~BestMyself /\ rec' = "SLAVE"
        /\ parent' = records[Chosen].src
        /\ flags' = (flags \ {"DECIDE"})
                     \cup (IF parent' # parent THEN {"CHANGED"} ELSE {})
  /\ heard' = 0
  /\ UNCHANGED <<portState, announceOn, delayReq, waitingForFollowUp, records, count, next, lock>>

-----------------------------------------------------------------------------
(* doState's switch over the recommended state.                            *)

Follow ==
  /\ pc = "follow" /\ pc' = "act"
  /\ \/ /\ rec = "SLAVE" /\ portState = "UNCALIBRATED"
        /\ flags' = flags \ {"SELECTED", "CHANGED"}
        /\ IF "SELECTED" \in flags THEN toState("SLAVE") ELSE Stay
     \/ /\ rec = "SLAVE" /\ portState = "SLAVE"
        /\ flags' = flags \ {"FAULT", "CHANGED"}
        /\ IF flags' # flags THEN toState("UNCALIBRATED") ELSE Stay
     \/ /\ rec = "SLAVE" /\ portState \notin Calibrating
        /\ toState("UNCALIBRATED") /\ UNCHANGED flags
     \/ /\ rec = "LISTENING"
        /\ IF portState # rec THEN toState(rec) ELSE Stay
        /\ UNCHANGED flags
     \/ rec = "INITIALIZING" /\ Stay /\ UNCHANGED flags
  /\ UNCHANGED <<masters, lock, heard>>

-----------------------------------------------------------------------------
(* doState's switch over the port's state.                                 *)

Acting == pc = "act" /\ pc' = "decide"

\* doInit; netInit may fail.
doInit ==
  /\ Acting /\ portState = "INITIALIZING"
  /\ \/ toState("LISTENING") /\ count' = 0 /\ parent' = Self
     \/ toState("FAULTY") /\ UNCHANGED <<count, parent>>
  /\ UNCHANGED <<flags, records, next, best, lock, heard>>

FaultCleared ==
  /\ Acting /\ portState = "FAULTY" /\ toState("INITIALIZING")
  /\ UNCHANGED <<flags, masters, lock, heard>>

\* Mutant: the masters heard of are kept.
KeepRecords ==
  /\ Acting /\ portState \in Operating /\ announceOn
  /\ IF portState = "LISTENING" THEN Stay ELSE toState("LISTENING")
  /\ UNCHANGED <<flags, masters, lock, heard>>

\* Mutant: the port does not go back to listening.
StaySlave ==
  /\ Acting /\ portState \in Operating /\ announceOn
  /\ count' = 0 /\ next' = 0 /\ Stay
  /\ UNCHANGED <<flags, records, best, parent, lock, heard>>

\* No announce message has restarted ANNOUNCE_RECEIPT_TIMER in time.
AnnounceTimeout ==
  /\ Acting /\ portState \in Operating /\ announceOn
  /\ count' = 0 /\ next' = 0
  /\ IF portState = "LISTENING" THEN Stay ELSE toState("LISTENING")
  /\ UNCHANGED <<flags, records, best, parent, lock, heard>>

-----------------------------------------------------------------------------
(* handle.                                                                 *)

Handling == Acting /\ portState \in Operating

\* Nothing has arrived, or nothing that the port regards.
Nothing ==
  /\ Handling /\ Stay /\ UNCHANGED <<flags, masters, lock, heard>>

\* A message is shorter than its type requires.
ShortMessage ==
  /\ Handling /\ toState("FAULTY")
  /\ UNCHANGED <<flags, masters, lock, heard>>

Known(a) == {j \in 0 .. count - 1 : records[j].src = a.src}

\* The record of a master is overwritten, or the next one in turn is.
addForeign(a) ==
  IF Known(a) # {}
  THEN /\ records' = [j \in DOMAIN records |-> IF j \in Known(a) THEN a ELSE records[j]]
       /\ UNCHANGED <<count, next>>
  ELSE /\ records' = [records EXCEPT ![next] = a]
       /\ count' = IF count < Capacity THEN count + 1 ELSE count
       /\ next' = (next + 1) % Capacity

\* s1 has nothing new to say of the parent's identity.
handleAnnounce(a) ==
  /\ Handling /\ heard' = a.src
  /\ flags' = flags \cup {"DECIDE"}
  /\ IF portState \in Calibrating /\ a.src = parent
     THEN announceOn' = TRUE /\ UNCHANGED <<records, count, next>>
     ELSE addForeign(a) /\ UNCHANGED announceOn
  /\ UNCHANGED <<portState, rec, delayReq, waitingForFollowUp, best, parent, lock>>

\* updateOffset and updateClock with a time of master m, then
\* issueDelayReqTimerExpired.
Offset(m) ==
  /\ \/ lock' = m /\ flags' = flags \cup (IF portState = "UNCALIBRATED" THEN {"SELECTED"} ELSE {})
     \/ UNCHANGED <<lock, flags>>
     \/ UNCHANGED lock /\ flags' = flags \cup (IF portState = "SLAVE" THEN {"FAULT"} ELSE {})
  /\ \/ UNCHANGED delayReq
     \/ portState = "SLAVE" /\ delayReq = "running" /\ delayReq' \in Drawn
  /\ waitingForFollowUp' = FALSE
  /\ UNCHANGED <<portState, rec, announceOn, masters>>

Heard(m) == Handling /\ portState \in Calibrating /\ heard' = m
FromParent(m) == Heard(m) /\ m = parent

SyncOneStep(m) == FromParent(m) /\ Offset(m)

SyncTwoStep(m) ==
  /\ FromParent(m) /\ waitingForFollowUp' = TRUE
  /\ UNCHANGED <<portState, rec, announceOn, delayReq, flags, masters, lock>>

\* Its number is the Sync's.
handleFollowUp(m) == FromParent(m) /\ waitingForFollowUp /\ Offset(m)

Handle ==
  \/ Nothing \/ ShortMessage
  \/ \E a \in Announces : handleAnnounce(a)
  \/ \E m \in Masters :
       SyncOneStep(m) \/ SyncTwoStep(m) \/ handleFollowUp(m)

doState ==
  \/ NoDecision \/ bmc \/ Follow
  \/ doInit \/ FaultCleared \/ AnnounceTimeout \/ Handle

PortSpec == PortInit /\ [][doState]_portVars
\* ptp_run_control_task calls doState every seven ticks.
PortFair == PortSpec /\ WF_portVars(doState)

-----------------------------------------------------------------------------
(* Properties.                                                             *)

\* A port that follows a master has one: its parent is not itself, a record
\* is left for the next decision to be taken from (bmc.c:420), and the timer
\* that finds the master silent runs.  (Between the decision to listen and
\* toState the parent is already the port itself.)
FollowsSomeone ==
  portState \in Calibrating /\ pc # "follow" => parent \in Masters /\ count > 0 /\ announceOn

\* Its delay request timer runs too, unless an interval of 0 was drawn.
AsksForDelay == portState \in Calibrating => delayReq # "stopped"

\* A port is in state SLAVE only of the master whose time last gave a good
\* offset: an offset from the master before does not count.
SlaveWhenCalibrated == pc = "act" /\ portState = "SLAVE" => lock = parent

Following(m) == portState \in Calibrating /\ parent = m

\* There are no faults, nothing but messages of m arrives, and a slave of m
\* hears it again before its timer expires.
OnlyHears(m) ==
  portState' # "FAULTY" /\ heard' \in {0, m} /\ ~(AnnounceTimeout /\ Following(m))

Better(m) == \A a \in Announces : a.src = m => Compare(Own, a) # 1

\* Whatever it has heard before, the port comes to follow the one master
\* that goes on announcing itself, if it is better than the port's own clock.
ComesToFollow ==
  \A m \in {n \in Masters : Better(n)} :
    (/\ <>[][OnlyHears(m)]_portVars
     /\ SF_portVars(AnnounceTimeout /\ ~Following(m))
     /\ SF_portVars(\E a \in Announces : a.src = m /\ handleAnnounce(a)))
    => <>[]Following(m)

\* "bmc: best record" (bmc.c:426): after a decision no record is better than
\* the one it was taken from.
BestChosen ==
  pc = "follow" /\ rec = "SLAVE" =>
    \A k \in 0 .. count - 1 : Compare(records[k], records[best]) # 1
=============================================================================
