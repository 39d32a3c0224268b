------------------------------ MODULE PtpQueue ------------------------------
(***************************************************************************)
(* What the PTP daemon expects of each of its two receive queues: a        *)
(* bounded queue that delivers whole datagrams in the order in which they  *)
(* were accepted, each at most once.  PtpNet implements it with a ring     *)
(* buffer that two tasks share without a lock.                             *)
(***************************************************************************)
EXTENDS Naturals, Sequences

CONSTANTS
  Queues,     \* the queues
  Capacity    \* how many datagrams a queue can hold

VARIABLES
  sent,       \* per queue, how many datagrams it has accepted; they are
              \* numbered in that order
  waiting,    \* per queue, the numbers of those that wait
  got         \* the last datagram delivered: its queue and its number, the
              \* latter as found in its payload and with its time stamp

vars == <<sent, waiting, got>>

Init ==
  /\ sent = [q \in Queues |-> 0]
  /\ waiting = [q \in Queues |-> <<>>]
  /\ got = <<>>

\* A datagram joins the queue.
Accept(q) ==
  /\ Len(waiting[q]) < Capacity
  /\ sent' = [sent EXCEPT ![q] = @ + 1]
  /\ waiting' = [waiting EXCEPT ![q] = Append(@, sent[q] + 1)]
  /\ UNCHANGED got

\* The oldest one is delivered, whole.
Deliver(q) ==
  /\ waiting[q] # <<>>
  /\ got' = <<q, Head(waiting[q]), Head(waiting[q])>>
  /\ waiting' = [waiting EXCEPT ![q] = Tail(@)]
  /\ UNCHANGED sent

\* The daemon throws away what had arrived when it began to.
Discard(q) ==
  /\ \E n \in 0 .. Len(waiting[q]) :
       waiting' = [waiting EXCEPT ![q] = SubSeq(@, n + 1, Len(@))]
  /\ UNCHANGED <<sent, got>>

Next == \E q \in Queues : Accept(q) \/ Deliver(q) \/ Discard(q)

Spec == Init /\ [][Next]_vars
=============================================================================
