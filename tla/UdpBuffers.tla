----------------------------- MODULE UdpBuffers -----------------------------
(***************************************************************************)
(* The network buffers of the image.  A buffer is handed around between    *)
(* the Ethernet controller's descriptors (NetworkInterface.c over          *)
(* enet_driver.c), the EMAC task, the IP task (FreeRTOS_IP.c,              *)
(* FreeRTOS_UDP_IP.c), a socket (FreeRTOS_Sockets.c) and the application,  *)
(* always by reference; whoever has it last gives it back to the pool.     *)
(* An application may answer in the buffer of the request, with            *)
(* FREERTOS_ZERO_COPY as boot_main_task does, or only read the buffer and  *)
(* have its datagrams copied into another one, as the PTP daemon does.     *)
(***************************************************************************)
EXTENDS Naturals, Sequences, SequencesExt

CONSTANTS
  Buffers,  \* the pool: ipconfigNUM_NETWORK_BUFFER_DESCRIPTORS of them
  NRx, NTx, \* ETH_RXBUFNB and ETH_TXBUFNB
  KeepsSent \* whether the application goes on to release the buffer it has
            \* answered in: the stack expects that it does not, and
            \* boot_main_task does (boot_app.c:832-835)

ASSUME PoolAssumption ==
  /\ IsFiniteSet(Buffers) /\ NRx \in Nat \ {0} /\ NTx \in Nat \ {0}
  /\ Cardinality(Buffers) > NRx + NTx
  /\ KeepsSent \in BOOLEAN

None == "none"
ASSUME NoBufferAssumption == None \notin Buffers

VARIABLES
  free,     \* xFreeBuffersList; the semaphore counts its length
  rx,       \* the buffers of the receive descriptors, from the current one on
  tx,       \* the transmit descriptors, from the current one on
  events,   \* those events of xNetworkEventQueue that carry a buffer
  waiting,  \* xWaitingPacketsList of the socket
  ip,       \* what the IP task is about to do, with which buffer
  app,      \* the task that receives: the same
  out       \* the buffer that netSend's sendto has filled

bufVars == <<free, rx, tx, events, waiting, ip, app, out>>

Resting == [step |-> "idle", buf |-> None]

\* ENET_DRV_Init has given every receive descriptor a buffer.
BufInit ==
  /\ LET all == SetToSeq(Buffers)
     IN /\ rx = SubSeq(all, 1, NRx)
        /\ free = SubSeq(all, NRx + 1, Len(all))
  /\ tx = [i \in 1 .. NTx |-> [buf |-> None, ready |-> FALSE]]
  /\ events = <<>> /\ waiting = <<>>
  /\ ip = Resting /\ app = Resting /\ out = None

-----------------------------------------------------------------------------
(* BufferAllocation_1.c and the event queue.                               *)

\* vReleaseNetworkBufferAndDescriptor: a second release does nothing.
Release(b) == free' = IF b \in Range(free) THEN free ELSE Append(free, b)
\* pxGetNetworkBufferWithDescriptor has a buffer to give.
Get(b) == free # <<>> /\ b = Head(free) /\ free' = Tail(free)
Put(kind, b) == events' = Append(events, [kind |-> kind, buf |-> b])

-----------------------------------------------------------------------------
(* The controller and the EMAC task.  It has the highest priority, so that *)
(* no other task sees a part of what it does for one frame.                *)

\* The oldest frame that is ready has been transmitted.
TxDone ==
  /\ \E i \in 1 .. NTx :
       /\ tx[i].ready /\ \A j \in 1 .. i - 1 : ~tx[j].ready
       /\ tx' = [tx EXCEPT ![i].ready = FALSE]
  /\ UNCHANGED <<free, rx, events, waiting, ip, app, out>>

\* A frame is for us: its buffer goes to the IP task, a fresh one takes its
\* place in the descriptor.
RxFrame ==
  /\ \E b \in Buffers : Get(b) /\ rx' = Append(Tail(rx), b)
  /\ Put("rx", Head(rx))
  /\ UNCHANGED <<tx, waiting, ip, app, out>>

\* Mutant: the buffer of a lost event is forgotten.
DropLost ==
  /\ \E b \in Buffers : Get(b) /\ rx' = Append(Tail(rx), b)
  /\ UNCHANGED <<tx, events, waiting, ip, app, out>>

\* The queue is full, of events that need not carry a buffer.
RxEventLost ==
  /\ free # <<>>
  /\ rx' = Append(Tail(rx), Head(free))
  /\ free' = Append(Tail(free), Head(rx))
  /\ UNCHANGED <<tx, events, waiting, ip, app, out>>

\* No buffer is free, or the frame is not for us: the descriptor keeps its
\* buffer.
RxDropped ==
  /\ rx' = Append(Tail(rx), Head(rx))
  /\ UNCHANGED <<free, tx, events, waiting, ip, app, out>>

-----------------------------------------------------------------------------
(* The IP task.                                                            *)

Event(kind) == ip.step = "idle" /\ events # <<>> /\ Head(events).kind = kind
Taken == Head(events).buf
Output(b) == ip' = [step |-> "clear", buf |-> b]

\* xProcessReceivedUDPPacket puts a datagram in the socket's list.
ToSocket ==
  /\ Event("rx")
  /\ waiting' = Append(waiting, Taken) /\ events' = Tail(events)
  /\ UNCHANGED <<free, rx, tx, ip, app, out>>

\* Mutant: a frame that cannot be sent yet is kept for later.
TryLater ==
  /\ ip.step = "idle" /\ events # <<>>
  /\ events' = Append(Tail(events), Head(events))
  /\ UNCHANGED <<free, rx, tx, waiting, ip, app, out>>

\* prvProcessEthernetPacket has no use for a frame, or
\* vProcessGeneratedUDPPacket cannot send one.
IpDrops ==
  /\ ip.step = "idle" /\ events # <<>>
  /\ Release(Taken) /\ events' = Tail(events)
  /\ UNCHANGED <<rx, tx, waiting, ip, app, out>>

\* A received frame is turned round in its buffer, a datagram or, in its
\* stead, an ARP request is sent.
IpSends ==
  /\ ip.step = "idle" /\ events # <<>>
  /\ Output(Taken) /\ events' = Tail(events)
  /\ UNCHANGED <<free, rx, tx, waiting, app, out>>

\* FreeRTOS_OutputARPRequest.
IpOwnFrame ==
  /\ ip.step = "idle" /\ \E b \in Buffers : Get(b) /\ Output(b)
  /\ UNCHANGED <<rx, tx, events, waiting, app, out>>

\* The current descriptor's buffer, if it has been transmitted, is released.
vClearCurrentTxBuffer ==
  /\ ip.step = "clear" /\ ip' = [ip EXCEPT !.step = "send"]
  /\ IF tx[1].buf # None /\ ~tx[1].ready
     THEN Release(tx[1].buf) /\ tx' = [tx EXCEPT ![1].buf = None]
     ELSE UNCHANGED <<free, tx>>
  /\ UNCHANGED <<rx, events, waiting, app, out>>

\* The current descriptor takes the frame, whatever buffer it still has.
SendFrame ==
  /\ ip.step = "send" /\ ip' = Resting
  /\ IF tx[1].ready
     THEN Release(ip.buf) /\ UNCHANGED tx
     ELSE /\ tx' = Append(Tail(tx), [buf |-> ip.buf, ready |-> TRUE])
          /\ UNCHANGED free
  /\ UNCHANGED <<rx, events, waiting, app, out>>

IpTask ==
  ToSocket \/ IpDrops \/ IpSends \/ IpOwnFrame \/ vClearCurrentTxBuffer \/ SendFrame

-----------------------------------------------------------------------------
(* The application.                                                        *)

FreeRTOS_recvfrom ==
  /\ app.step = "idle" /\ waiting # <<>>
  /\ app' = [step |-> "serve", buf |-> Head(waiting)] /\ waiting' = Tail(waiting)
  /\ UNCHANGED <<free, rx, tx, events, ip, out>>

\* sendto with FREERTOS_ZERO_COPY; if it fails nothing changes.
SendSame ==
  /\ app.step = "serve"
  /\ Put("tx", app.buf)
  /\ app' = IF KeepsSent THEN [app EXCEPT !.step = "sent"] ELSE Resting
  /\ UNCHANGED <<free, rx, tx, waiting, ip, out>>

FreeRTOS_ReleaseUDPPayloadBuffer ==
  /\ app.step # "idle"
  /\ Release(app.buf) /\ app' = Resting
  /\ UNCHANGED <<rx, tx, events, waiting, ip, out>>

\* sendto without it has a buffer, and hands it to the IP task or gives it
\* back.
SendCopy ==
  /\ out = None
  /\ \E b \in Buffers : Get(b) /\ out' = b
  /\ UNCHANGED <<rx, tx, events, waiting, ip, app>>

\* Mutant: the buffer is given back whether or not it was handed over.
HandOverAndRelease ==
  /\ out # None /\ out' = None
  /\ Release(out) /\ events' \in {events, Append(events, [kind |-> "tx", buf |-> out])}
  /\ UNCHANGED <<rx, tx, waiting, ip, app>>

HandOver ==
  /\ out # None /\ out' = None
  /\ Put("tx", out)
  /\ UNCHANGED <<free, rx, tx, waiting, ip, app>>

TxEventLost ==
  /\ out # None /\ out' = None
  /\ Release(out)
  /\ UNCHANGED <<rx, tx, events, waiting, ip, app>>

Application ==
  \/ FreeRTOS_recvfrom \/ SendSame \/ FreeRTOS_ReleaseUDPPayloadBuffer
  \/ SendCopy \/ HandOver \/ TxEventLost

BufNext == TxDone \/ RxFrame \/ RxEventLost \/ RxDropped \/ IpTask \/ Application
BufSpec == BufInit /\ [][BufNext]_bufVars

\* The tasks get done what they have begun: the IP task and the application
\* are scheduled, and neither waits for the other to give a buffer back.
Finishing ==
  ToSocket \/ IpDrops \/ IpSends \/ vClearCurrentTxBuffer \/ SendFrame
BufFair ==
  /\ BufSpec
  /\ WF_bufVars(Finishing)
  /\ WF_bufVars(FreeRTOS_recvfrom)
  /\ WF_bufVars(FreeRTOS_ReleaseUDPPayloadBuffer)
  /\ WF_bufVars(HandOver \/ TxEventLost)

-----------------------------------------------------------------------------
(* Properties.                                                             *)

\* Who has which buffer.  The application has lost one that it gave away.
Held ==
  free \o rx \o waiting
    \o [i \in 1 .. Len(events) |-> events[i].buf]
    \o [i \in 1 .. NTx |-> tx[i].buf]
    \o <<ip.buf, IF app.step = "sent" THEN None ELSE app.buf, out>>

\* No buffer is in two hands: not released while the controller transmits
\* it, nor filled by it while a task reads it.
OneOwner ==
  LET held == Held
  IN \A i, j \in 1 .. Len(held) : held[i] = held[j] /\ held[i] # None => i = j

\* "After packets have been sent, the network buffers will be released"
\* (NetworkInterface.c:79-80): none is in nobody's hands.
NoneLost == Buffers \subseteq Range(Held)

\* A buffer is lost in one way only: its frame was still being transmitted
\* when vClearCurrentTxBuffer looked at the current descriptor, and no more
\* when ENET_DRV_SendFrame did (NetworkInterface.c:279-281).
LostBySendOnly ==
  [][LET lost == (Buffers \cap Range(Held)) \ Range(Held')
     IN lost # {} => ip.step = "send" /\ lost = {tx[1].buf}]_bufVars

\* The pool does not stay empty although the transmit descriptors keep
\* buffers until their turn comes again, unless buffers have been lost.
PoolRefills == free = <<>> ~> (free # <<>> \/ ~NoneLost)
=============================================================================
