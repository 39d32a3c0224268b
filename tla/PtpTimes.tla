------------------------------ MODULE PtpTimes ------------------------------
(***************************************************************************)
(* Which times a slave puts together (src/sample_common/ptp: protocol.c,   *)
(* servo.c).  An offset needs the time at which a Sync was received and    *)
(* that at which it was sent, which a Follow_Up brings; a path delay needs *)
(* such a pair and another one, the time of a delay request and that of    *)
(* its arrival, which a Delay_Resp brings.  In between, the clock may be   *)
(* set, the port may get another parent, and messages may be lost, copied  *)
(* or overtaken by others.                                                 *)
(*                                                                         *)
(* Of a receive time we keep whether it was read since the clock was last  *)
(* set (now), or before that (past), or before while its datagram was not  *)
(* yet in the queue (caught).  A delay request is named by its age, the    *)
(* number of requests after it.  Why the port changes its state or its     *)
(* parent is PtpPort's business, and how the queues work is PtpNet's.      *)
(***************************************************************************)
EXTENDS Integers, Sequences

CONSTANTS
  Senders,   \* the masters that send messages
  NumMod,    \* numbers of messages are modulo this: 2^16
  MaxAge,    \* bound: requests are told apart up to this age
  MaxQueued  \* bound: datagrams received and not handled, of either kind

ASSUME TimesAssumption ==
  /\ NumMod \in Nat \ {0, 1} /\ MaxQueued \in Nat \ {0}
  /\ MaxAge \in NumMod .. 2 * NumMod

VARIABLES
  following, \* portState: "no", "UNCALIBRATED" or "SLAVE"
  master,    \* the parent
  incoming,  \* what event_ptp_rx_task has received and not yet put into its
             \* queue: at most one message, with its receive time
  eventQ, generalQ, \* the received messages
  lastSync,  \* timestamp_syncRecieve and recvSyncSequenceId, and whether
             \* waitingForFollowUp; moved: the parent is another since
  Tms,       \* when its receive time was read; "none" if ofm_filt.n = 0
  sequence,  \* sentDelayReqSequenceId
  delayReqSend, \* timestamp_delayReqSend: of the last request, read since the
             \* clock was set ("now") or before ("past"), or "older"
  since      \* history: the requests since the clock was set, up to MaxAge

portStuff == <<following, master>>
reqStuff  == <<sequence, delayReqSend, since>>
timeVars  == <<portStuff, incoming, eventQ, generalQ, lastSync, Tms, reqStuff>>

NoSync == [waiting |-> FALSE]
Taking == following \in {"UNCALIBRATED", "SLAVE"}
SeqNumbers == 0 .. NumMod - 1
OneMore(a) == IF a < MaxAge THEN a + 1 ELSE a

TimesInit ==
  /\ following = "no" /\ master \in Senders
  /\ incoming = <<>> /\ eventQ = <<>> /\ generalQ = <<>>
  /\ lastSync = NoSync /\ Tms = "none"
  /\ sequence = 0 /\ delayReqSend = "older"
  /\ since = 0

-----------------------------------------------------------------------------
(* The queues.                                                             *)


\* Mutant: what has been received is kept.
QueueKept(q) == q
\* netEmptyEventQ and netEmptyGeneralQ.
QueueEmptied(q) == <<>>

\* FreeRTOS_recvfrom reads the clock; the task then fills an item.
SyncArrives ==
  /\ incoming = <<>> /\ Len(eventQ) < MaxQueued
  /\ \E m \in Senders, n \in SeqNumbers :
       incoming' = <<[from |-> m, num |-> n, read |-> "now"]>>
  /\ UNCHANGED <<portStuff, eventQ, generalQ, lastSync, Tms, reqStuff>>

SyncQueued ==
  /\ incoming # <<>>
  /\ eventQ' = eventQ \o incoming /\ incoming' = <<>>
  /\ UNCHANGED <<portStuff, generalQ, lastSync, Tms, reqStuff>>

FollowUpArrives ==
  /\ Len(generalQ) < MaxQueued
  /\ \E m \in Senders, n \in SeqNumbers :
       generalQ' = Append(generalQ, [kind |-> "follow", from |-> m, num |-> n])
  /\ UNCHANGED <<portStuff, incoming, eventQ, lastSync, Tms, reqStuff>>

\* Every master may answer every request at any time, one of an earlier run
\* of the daemon too; late, if the clock has been set since.
ResponseArrives ==
  /\ Len(generalQ) < MaxQueued
  /\ \E m \in Senders, a \in 0 .. MaxAge - 1 :
       generalQ' = Append(generalQ, [kind |-> "resp", from |-> m, age |-> a,
                                     late |-> a >= since])
  /\ UNCHANGED <<portStuff, incoming, eventQ, lastSync, Tms, reqStuff>>

\* The receive times in q once the clock has been set.
Past(q) == [i \in DOMAIN q |-> [q[i] EXCEPT !.read = "past"]]
Caught(q) == [i \in DOMAIN q |-> [q[i] EXCEPT !.read = "caught"]]
\* The answers in q once another request has been sent.
Overtaken(q) ==
  [i \in DOMAIN q |-> IF q[i].kind = "resp" THEN [q[i] EXCEPT !.age = OneMore(@)] ELSE q[i]]

-----------------------------------------------------------------------------
(* The port's state.  toState calls initClock on leaving LISTENING, and on *)
(* leaving UNCALIBRATED and SLAVE for another state than these two; not on *)
(* leaving FAULTY, which may be left for UNCALIBRATED.                     *)

initClock ==
  /\ lastSync' = NoSync /\ Tms' = "none"
  /\ eventQ' = QueueEmptied(eventQ) /\ generalQ' = QueueEmptied(generalQ)

StartsFollowing ==
  /\ ~Taking /\ following' = "UNCALIBRATED" /\ master' \in Senders
  /\ initClock \/ UNCHANGED <<eventQ, generalQ, lastSync, Tms>>
  /\ UNCHANGED <<incoming, reqStuff>>

StopsFollowing ==
  /\ Taking /\ following' = "no" /\ initClock
  /\ UNCHANGED <<master, incoming, reqStuff>>

\* UNCALIBRATED and SLAVE follow each other as the servo has it.
Calibrates ==
  /\ Taking /\ following' \in {"UNCALIBRATED", "SLAVE"} \ {following}
  /\ UNCHANGED <<master, incoming, eventQ, generalQ, lastSync, Tms, reqStuff>>

\* bmc has chosen another master: nothing is forgotten.
ParentChanges ==
  /\ Taking /\ master' \in Senders \ {master}
  /\ lastSync' = IF lastSync.waiting THEN [lastSync EXCEPT !.moved = master' # lastSync.from]
                 ELSE lastSync
  /\ UNCHANGED <<following, incoming, eventQ, generalQ, Tms, reqStuff>>

-----------------------------------------------------------------------------
(* The messages.  handle looks into the event queue first.                 *)

\* issueDelayReqTimerExpired when the stamp of the last request is s, r have
\* been sent since the clock was set, and the messages in q are left.  The
\* stamp of a new one is not taken over in the clock's first second.
MayAskForDelay(s, r, q) ==
  \/ generalQ' = q /\ delayReqSend' = s /\ since' = r /\ UNCHANGED sequence
  \/ /\ following = "SLAVE"
     /\ sequence' = (sequence + 1) % NumMod
     /\ delayReqSend' \in {"now", "older"}
     /\ since' = OneMore(r)
     /\ generalQ' = Overtaken(q)

StampPast == IF delayReqSend = "now" THEN "past" ELSE delayReqSend

\* updateOffset and updateClock with a receive time, when the messages in e
\* and g are left.  A large offset sets the clock, which calls initClock.
UseOffset(time, e, g) ==
  /\ lastSync' = NoSync
  /\ \/ /\ Tms' = time.read /\ eventQ' = e /\ incoming' = incoming
        /\ MayAskForDelay(delayReqSend, since, g)
     \/ /\ Tms' = "none" /\ eventQ' = QueueEmptied(Past(e)) /\ incoming' = Caught(incoming)
        /\ MayAskForDelay(StampPast, 0, QueueEmptied(g))
  /\ UNCHANGED portStuff

\* A Sync of the parent that carries its time, or waits for its Follow_Up.
TakeSync ==
  /\ eventQ # <<>>
  /\ LET s == Head(eventQ) IN
     /\ Taking /\ s.from = master
     /\ \/ UseOffset(s, Tail(eventQ), generalQ)
        \/ /\ lastSync' = [waiting |-> TRUE, from |-> s.from, num |-> s.num,
                           read |-> s.read, moved |-> FALSE]
           /\ eventQ' = Tail(eventQ)
           /\ UNCHANGED <<portStuff, incoming, generalQ, Tms, reqStuff>>

IgnoreSync ==
  /\ eventQ # <<>> /\ ~(Taking /\ Head(eventQ).from = master)
  /\ eventQ' = Tail(eventQ)
  /\ UNCHANGED <<portStuff, incoming, generalQ, lastSync, Tms, reqStuff>>

\* Mutant: a Follow_Up of any master will do.
PairsByNumber(f) ==
  /\ f.kind = "follow" /\ Taking
  /\ lastSync.waiting /\ lastSync.num = f.num
\* Whether handleFollowUp takes f.
PairsUp(f) ==
  /\ f.kind = "follow" /\ Taking /\ f.from = master
  /\ lastSync.waiting /\ lastSync.num = f.num

\* Whether handleDelayResp takes r: its number is an unsigned short, the one
\* it is compared with an int, -1 if sequence is 0; and whether updateDelay
\* then computes meanPathDelay from Tms, delayReqSend and r.
Answers(r) ==
  /\ r.kind = "resp" /\ Taking /\ r.from = master
  /\ sequence - 1 = (sequence - 1 - r.age) % NumMod
MeasuresDelay(r) == Answers(r) /\ Tms # "none"

Hears == eventQ = <<>> /\ generalQ # <<>>

TakeFollowUp ==
  /\ Hears /\ PairsUp(Head(generalQ))
  /\ UseOffset(lastSync, eventQ, Tail(generalQ))

\* No later step depends on the path delay here, nor on a Follow_Up or an
\* answer that is ignored.
TakeOther ==
  /\ Hears /\ ~PairsUp(Head(generalQ))
  /\ generalQ' = Tail(generalQ)
  /\ UNCHANGED <<portStuff, incoming, eventQ, lastSync, Tms, reqStuff>>

TimesNext ==
  \/ SyncArrives \/ SyncQueued \/ FollowUpArrives \/ ResponseArrives
  \/ StartsFollowing \/ StopsFollowing \/ Calibrates \/ ParentChanges
  \/ TakeSync \/ IgnoreSync \/ TakeFollowUp \/ TakeOther

TimesSpec == TimesInit /\ [][TimesNext]_timeVars

-----------------------------------------------------------------------------
(* Properties.                                                             *)

\* A path delay that would be computed (servo.c:210) is put together from one
\* request, its own answer, and times of one setting of the clock, however
\* messages are delayed, copied and overtaken, because initClock forgets Tms
\* and empties the queues.  Escapes: a Sync that was in the hands of the rx
\* task when the clock was set, an answer that was still under way then (late)
\* or whose number has come round, a request whose time was not taken over.
DelayFits ==
  \A i \in DOMAIN generalQ :
    LET r == generalQ[i] IN
    MeasuresDelay(r) /\ ~r.late /\ r.age < NumMod /\ delayReqSend # "older" =>
      r.age = 0 /\ Tms # "past" /\ delayReqSend = "now"

\* The two times of an offset that a Follow_Up completes are of one master,
\* unless the parent has changed since the Sync (protocol.c:672); and the
\* receive time is not one that was in the queue when the clock was set.
OffsetFits ==
  \A i \in DOMAIN generalQ :
    LET f == generalQ[i] IN
    PairsUp(f) => (lastSync.from = f.from \/ lastSync.moved) /\ lastSync.read # "past"
=============================================================================
