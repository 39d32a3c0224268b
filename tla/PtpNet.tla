------------------------------- MODULE PtpNet -------------------------------
(***************************************************************************)
(* The receive queues of the PTP daemon (src/sample_common/ptp/net.c over  *)
(* the ring buffer of rb.h).  event_ptp_rx_task and general_ptp_rx_task    *)
(* each fill one queue, the PTP task empties both.  The three tasks have   *)
(* the same priority and share the processor by time slices, so that any   *)
(* of them may be suspended between two accesses to a ring; there is no    *)
(* lock.  One action here is one access that another task can observe.     *)
(***************************************************************************)
EXTENDS Naturals, Sequences

CONSTANTS
  Size,       \* PBUF_QUEUE_SIZE
  Halfway,    \* whether a time slice may end between the two stores, of
              \* Size and then of 0, to which rb.h's increment of the last
              \* index is compiled (obj/Release/core0/net.o)
  MaxSent     \* bound: datagrams accepted by each queue

Queues == {"event", "general"}

ASSUME SizeAssumption == Size \in Nat \ {0, 1}
ASSUME SliceAssumption == Halfway \in BOOLEAN

VARIABLES
  w, r,       \* w_idx and r_idx of each ring
  slot,       \* its pbuf_t items: which datagram the payload and the time
              \* stamp belong to; item Size lies behind the array
  wpc,        \* per queue, what its rx task does next
  rpc, port,  \* what the PTP task does next, and with which queue
  copy,       \* the parts of an item it has copied
  mark,       \* rb_set_empty between the load of w_idx and the store of r_idx
  sent, taken,\* history: datagrams accepted, and delivered or thrown away
  got         \* history: the last one netRecv returned

rings == <<w, r, slot>>
netVars == <<w, r, slot, wpc, rpc, port, copy, mark, sent, taken, got>>

\* Mutant: the last item counts for none.
EmptyButOne(q) == r[q] = w[q] \/ r[q] + 1 = w[q]

IsEmpty(q) == r[q] = w[q]

\* Mutant: a read index of 0 is forgotten.
FullButAtZero(q) == w[q] + 1 = r[q]

IsFull(q) == (w[q] + 1 = r[q]) \/ (r[q] = 0 /\ w[q] + 1 >= Size)

\* The value that the other tasks see first when an index is incremented.
Bump(i) == IF i + 1 >= Size /\ ~Halfway THEN 0 ELSE i + 1
\* The second store is still to be made.
Overrun(i) == i >= Size

\* The item p places behind item i of the ring (p < Size), and rb_len.
Step(i, p) == IF i + p >= Size THEN i + p - Size ELSE i + p
Length(q) == IF w[q] >= r[q] THEN w[q] - r[q] ELSE Size + w[q] - r[q]

Blank == [payload |-> 0, stamp |-> 0]

NetInit ==
  /\ w = [q \in Queues |-> 0]
  /\ r = [q \in Queues |-> 0]
  /\ slot = [q \in Queues |-> [i \in 0 .. Size |-> Blank]]
  /\ wpc = [q \in Queues |-> "recv"]
  /\ rpc = "idle" /\ port = "event"
  /\ copy = Blank
  /\ mark = [idx |-> 0, upto |-> 0]
  /\ sent = [q \in Queues |-> 0]
  /\ taken = [q \in Queues |-> 0]
  /\ got = <<>>

-----------------------------------------------------------------------------
(* The rx tasks.                                                           *)

Goto(q, from, to) == wpc[q] = from /\ wpc' = [wpc EXCEPT ![q] = to]
Reader == <<r, rpc, port, copy, mark, taken, got>>

\* recvfrom returns a datagram and there is room for it.
RxAccept(q) ==
  /\ ~IsFull(q) /\ sent[q] < MaxSent
  /\ Goto(q, "recv", "payload")
  /\ UNCHANGED <<w, slot, sent, Reader>>

\* recvfrom returns one and there is none, or it returns an empty one.
RxRefuse(q) ==
  /\ Goto(q, "recv", "release")
  /\ UNCHANGED <<w, slot, sent, Reader>>

\* Mutant: the time stamps are left as they were.
PayloadOnly(q) ==
  /\ Goto(q, "stamp", "advance")
  /\ UNCHANGED <<w, slot, sent, Reader>>

RxPayload(q) ==
  /\ Goto(q, "payload", "stamp")
  /\ slot' = [slot EXCEPT ![q][w[q]].payload = sent[q] + 1]
  /\ UNCHANGED <<w, sent, Reader>>

\* tot_len and the time stamps.
RxStamp(q) ==
  /\ Goto(q, "stamp", "advance")
  /\ slot' = [slot EXCEPT ![q][w[q]].stamp = sent[q] + 1]
  /\ UNCHANGED <<w, sent, Reader>>

\* rb_w_idx_inc: from here on the datagram is in the queue.  An index that
\* others may see overrun takes a second step.
RxAdvance(q) ==
  /\ wpc[q] \in {"advance", "wrap"}
  /\ w' = [w EXCEPT ![q] = IF wpc[q] = "wrap" THEN 0 ELSE Bump(@)]
  /\ wpc' = [wpc EXCEPT ![q] = IF Overrun(w'[q]) THEN "wrap" ELSE "release"]
  /\ sent' = IF wpc[q] = "wrap" THEN sent ELSE [sent EXCEPT ![q] = @ + 1]
  /\ UNCHANGED <<slot, Reader>>

RxRelease(q) ==
  /\ Goto(q, "release", "recv")
  /\ UNCHANGED <<w, slot, sent, Reader>>

RxTask(q) ==
  \/ RxAccept(q) \/ RxRefuse(q) \/ RxPayload(q) \/ RxStamp(q)
  \/ RxAdvance(q) \/ RxRelease(q)

-----------------------------------------------------------------------------
(* The PTP task.                                                           *)

Writer == <<w, slot, wpc, sent>>
Looking == rpc \in {"idle", "selected"}

\* netSelect returns 1 (when it returns 0 nothing changes).
netSelect ==
  /\ Looking
  /\ \E q \in Queues : ~IsEmpty(q)
  /\ rpc' = "selected"
  /\ UNCHANGED <<Writer, r, port, copy, mark, taken, got>>

\* handle: netRecvEvent has an item, or netRecvGeneral is called next.
netRecvEvent ==
  /\ Looking
  /\ port' = IF IsEmpty("event") THEN "general" ELSE "event"
  /\ rpc' = IF IsEmpty("event") THEN "general" ELSE "stamp"
  /\ UNCHANGED <<Writer, r, copy, mark, taken, got>>

netRecvGeneral ==
  /\ rpc = "general"
  /\ rpc' = IF IsEmpty("general") THEN "idle" ELSE "stamp"
  /\ UNCHANGED <<Writer, r, port, copy, mark, taken, got>>

CopyStamp ==
  /\ rpc = "stamp" /\ rpc' = "payload"
  /\ copy' = [copy EXCEPT !.stamp = slot[port][r[port]].stamp]
  /\ UNCHANGED <<Writer, r, port, mark, taken, got>>

CopyPayload ==
  /\ rpc = "payload" /\ rpc' = "advance"
  /\ copy' = [copy EXCEPT !.payload = slot[port][r[port]].payload]
  /\ UNCHANGED <<Writer, r, port, mark, taken, got>>

\* Mutant: a plain increment.
IncrementOnly ==
  /\ rpc = "advance" /\ rpc' = "idle"
  /\ r' = [r EXCEPT ![port] = @ + 1]
  /\ taken' = [taken EXCEPT ![port] = @ + 1]
  /\ got' = <<port, copy.payload, copy.stamp>>
  /\ copy' = Blank
  /\ UNCHANGED <<Writer, port, mark>>

\* rb_r_idx_inc: the item is free again.
ReadAdvance ==
  /\ rpc \in {"advance", "wrap"}
  /\ r' = [r EXCEPT ![port] = IF rpc = "wrap" THEN 0 ELSE Bump(@)]
  /\ rpc' = IF Overrun(r'[port]) THEN "wrap" ELSE "idle"
  /\ taken' = IF rpc = "wrap" THEN taken ELSE [taken EXCEPT ![port] = @ + 1]
  /\ got' = IF rpc = "wrap" THEN got ELSE <<port, copy.payload, copy.stamp>>
  /\ copy' = Blank
  /\ UNCHANGED <<Writer, port, mark>>

\* initClock begins: netEmptyEventQ, then netEmptyGeneralQ.
netEmptyEventQ ==
  /\ Looking
  /\ rpc' = "empty" /\ port' = "event"
  /\ mark' = [idx |-> w["event"], upto |-> sent["event"]]
  /\ UNCHANGED <<Writer, r, copy, taken, got>>

\* Mutant: the ring is read from its start again.
BackToStart ==
  /\ rpc = "empty"
  /\ r' = [r EXCEPT ![port] = 0]
  /\ taken' = [taken EXCEPT ![port] = mark.upto]
  /\ rpc' = IF port = "event" THEN "next" ELSE "idle"
  /\ mark' = [idx |-> 0, upto |-> 0]
  /\ UNCHANGED <<Writer, port, copy, got>>

netQEmpty ==
  /\ rpc = "empty"
  /\ r' = [r EXCEPT ![port] = mark.idx]
  /\ taken' = [taken EXCEPT ![port] = mark.upto]
  /\ rpc' = IF port = "event" THEN "next" ELSE "idle"
  /\ mark' = [idx |-> 0, upto |-> 0]
  /\ UNCHANGED <<Writer, port, copy, got>>

netEmptyGeneralQ ==
  /\ rpc = "next"
  /\ rpc' = "empty" /\ port' = "general"
  /\ mark' = [idx |-> w["general"], upto |-> sent["general"]]
  /\ UNCHANGED <<Writer, r, copy, taken, got>>

Receiving ==
  \/ netRecvGeneral \/ CopyStamp \/ CopyPayload \/ ReadAdvance
  \/ netQEmpty \/ netEmptyGeneralQ

PtpTask == netSelect \/ netRecvEvent \/ netEmptyEventQ \/ Receiving

NetNext == PtpTask \/ \E q \in Queues : RxTask(q)
NetSpec == NetInit /\ [][NetNext]_netVars

\* The kernel gives tasks of one priority the processor in turn, and the PTP
\* task looks for a datagram at least every seven ticks.
NetFair == NetSpec /\ WF_netVars(Receiving) /\ WF_netVars(netRecvEvent)

-----------------------------------------------------------------------------
(* Properties.                                                             *)

ItemType == [payload : Nat, stamp : Nat]

NetTypeOK ==
  /\ w \in [Queues -> 0 .. Size]
  /\ r \in [Queues -> 0 .. Size]
  /\ slot \in [Queues -> [0 .. Size -> ItemType]]
  /\ wpc \in [Queues ->
             {"recv", "payload", "stamp", "advance", "wrap", "release"}]
  /\ rpc \in {"idle", "selected", "general", "stamp", "payload", "advance",
              "wrap", "empty", "next"}
  /\ port \in Queues
  /\ copy \in ItemType
  /\ mark \in [idx : 0 .. Size, upto : Nat]
  /\ sent \in [Queues -> Nat]
  /\ taken \in [Queues -> Nat]

\* What netRecv has copied when it moves the read index (net.c:204) is one
\* whole datagram, with its own time stamps, and the oldest accepted one that
\* the daemon has neither been given nor thrown away.
WholeInOrder ==
  rpc = "advance" =>
    /\ copy.payload = taken[port] + 1
    /\ copy.stamp = copy.payload
    /\ copy.payload <= sent[port]

\* An rx task never fills the item that the PTP task is copying: the place
\* that rb_is_full keeps free is the one being written.
NoSharedItem ==
  \A q \in Queues :
    wpc[q] \in {"payload", "stamp"} /\ port = q
      /\ rpc \in {"stamp", "payload"} => w[q] # r[q]

\* netSelect returns 1 only if a datagram is there (net.c:154-155, "check to
\* see if a packet is available on either port and return 1").
SelectTrue ==
  rpc = "selected" => \E q \in Queues : taken[q] < sent[q]

\* The two rings are bounded queues: every step of the tasks is a step of
\* PtpQueue or leaves it unchanged.  What waits is what lies between the
\* indices, less what the PTP task is about to throw away.
Waiting(q) == [p \in 1 .. Length(q) |-> slot[q][Step(r[q], p - 1)].payload]
Q == INSTANCE PtpQueue WITH
       Capacity <- Size - 1,
       waiting <- [q \in Queues |-> Waiting(q)]
ImplementsQueue == Q!Spec

\* A datagram of the event queue does not stay there for ever, however many
\* arrive and however often the clock is initialised: the queue is emptied
\* again and again, or its oldest datagram is taken again and again.  (The
\* general queue is read when the event queue is empty, so no such promise
\* holds of it.)
EventTaken ==
  \/ []<>(taken["event"] = sent["event"])
  \/ []<><<taken'["event"] # taken["event"]>>_taken

=============================================================================
