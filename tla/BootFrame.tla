------------------------------ MODULE BootFrame ------------------------------
(***************************************************************************)
(* The byte level of one request and its reply: build_crypt_msg and        *)
(* decrypt_msg, which both ends have, and the buffers they work in.  The   *)
(* calls of boot_comm.cpp use one buffer for the request and the reply and *)
(* one for the frames of both; boot_main_task keeps its two from one       *)
(* request to the next.  Whether a service agrees is left open here: that  *)
(* is BootServer's subject.                                                *)
(***************************************************************************)
EXTENDS Integers, Sequences

Byte == 0 .. 255

CONSTANTS
  BlockSize,  \* bytes of data in a full block (1024)
  PlainSize,  \* the size of buf_decrypt (1280)
  Fills,      \* values of the bytes whose value decides nothing
  Refusals,   \* response codes of a service that does not agree
  MaxCalls    \* bound: calls of the host between two starts of the device

\* Every buffer holds the longest request and reply that is not a block of
\* data, and a length fits the two bytes that a frame has for it.
ASSUME FrameAssumption ==
  /\ BlockSize \in Nat /\ 12 <= BlockSize /\ BlockSize + 2 < 65536
  /\ PlainSize \in Nat /\ BlockSize + 2 <= PlainSize
  /\ Fills \subseteq Byte /\ Refusals \subseteq Byte /\ MaxCalls \in Nat

VARIABLES
  host_call, \* the host's call: the request, its buffers, what it returns
  device,    \* buf_decrypt, the length of what was decrypted, and buf_crypt
  wire,      \* the frame under way, <<>> when there is none
  outcome,   \* history: what became of the request, as the call should return it
  calls      \* the calls made since the device started

frameVars == <<host_call, device, wire, outcome, calls>>

Flag    == 126   \* 0x7E
Refused == 127   \* 0x7F

\* What a call returns: 0, the code of a refusal, or -1.
Positive == 0
Failed   == -1
Pending  == -2   \* not yet

-----------------------------------------------------------------------------
(* The codec.                                                              *)

\* CPYPT_MASK is 0x55: the bits of these weights are inverted.
Bit(b, weight) == (b \div weight) % 2
Masked == [b \in Byte |->
             b + 85 - 2 * (Bit(b, 1) + 4 * Bit(b, 4) + 16 * Bit(b, 16) + 64 * Bit(b, 64))]
Crypt(s) == [i \in DOMAIN s |-> Masked[s[i]]]
Same(n, b) == [i \in 1 .. n |-> b]

\* What a buffer holds once s is written at its start.  A buffer is the
\* sequence of its bytes up to the last one ever written: a byte that never
\* was cannot be read.
Over(buf, s) == s \o SubSeq(buf, Len(s) + 1, Len(buf))

\* Neither end looks at the sum of the bytes: a 0 stands for it.
build_crypt_msg(msg) ==
  LET c == Crypt(msg)
  IN  <<Flag, c[1], Len(c) \div 256, Len(c) % 256>> \o Tail(c) \o <<0, Flag>>

\* The length a frame announces.
AnnouncedLength(src) == src[3] * 256 + src[4]

\* Mutant: a frame of seven bytes is taken for one of a single byte.
ShortFrames(src, n) ==
  LET len == IF n > 7 THEN AnnouncedLength(src) ELSE 1
  IN  Crypt(<<src[2]>> \o SubSeq(src, 5, len + 3))

(***************************************************************************)
(* n is what recvfrom returned; as a uint32_t, -1 is more than 6 as well.  *)
(* The length that is announced is compared neither with n nor with the    *)
(* size of the destination: for a frame of another sender that announces   *)
(* more than it carries, or than the destination holds, the code reads or  *)
(* writes past the end of a buffer, and this definition says nothing.      *)
(* Every frame of this module is of build_crypt_msg (FramesFit).           *)
(***************************************************************************)
decrypt_msg(src, n) ==
  LET len == IF n > 6 THEN AnnouncedLength(src) ELSE 1
  IN  Crypt(<<src[2]>> \o SubSeq(src, 5, len + 3))

NoFrame == 65536   \* stands for (uint32_t)-1

-----------------------------------------------------------------------------
(* The calls of boot_comm.cpp: the service, the bytes after it that say    *)
(* which of its requests it is, the length, and what the host looks at in  *)
(* a positive reply: its length, which has to be exact or may be greater,  *)
(* and how many of those bytes it echoes.  "reply" is the length of the    *)
(* positive reply of the service of boot_app.c.                            *)

Request(sid, fixed, len, wanted, exact, echo, reply) ==
  [sid |-> sid, fixed |-> fixed, len |-> len, wanted |-> wanted,
   exact |-> exact, echo |-> echo, reply |-> reply]

\* Mutant: the values are sent with the length of each before it.
LongRead(id, size) == Request(34, <<0, id>>, 3, 4, FALSE, 2, 4 + size)

\* read_data_by_id of a value of the given size.
ReadOf(id, size) == Request(34, <<0, id>>, 3, 4, FALSE, 2, 3 + size)

Block(sn, size) == Request(54, <<sn>>, size + 2, 2, TRUE, 1, 2)

Requests ==
  { Request(16, <<2>>,           2, 2, FALSE, 0, 2),   \* enter_session
    Request(39, <<1>>,           2, 6, FALSE, 1, 6),   \* security_access, seed
    Request(39, <<2>>,           6, 2, FALSE, 1, 2),   \* and key
    Request(49, <<1, 255, 0>>,  12, 4, TRUE,  3, 4),   \* erase_flash_memory
    Request(49, <<3, 255, 0>>,   4, 5, TRUE,  3, 5),
    Request(49, <<1, 255, 1>>,   8, 4, TRUE,  3, 4),   \* data_checksum_validate
    Request(49, <<3, 255, 1>>,   4, 5, TRUE,  3, 5),
    ReadOf(0, 8), ReadOf(1, 4),                        \* enc_header, svn_rev
    Request(46, <<0, 0>>,       11, 3, TRUE,  2, 3),   \* write_data_by_id
    Request(52, <<68>>,         10, 1, FALSE, 0, 1),   \* download_data
    Block(1, BlockSize), Block(2, 1),                  \* a full and a last block
    Request(55, <<>>,            1, 1, FALSE, 0, 1),   \* exit_download_data
    Request(17, <<1>>,           2, 2, TRUE,  1, 2) }  \* reset_device

Message(q, fill) == <<q.sid>> \o q.fixed \o Same(q.len - 1 - Len(q.fixed), fill)

\* The locals of the call; download_data has longer ones than the others.
BufSize(q) == IF q.sid \in {52, 54} THEN BlockSize + 2 ELSE 16

-----------------------------------------------------------------------------
(* The host.                                                               *)

\* A call masks its request where it is, and frames it.  What an earlier
\* request of the same function left in the buffers counts as never written.
Prepare(q, fill) ==
  /\ host_call.step = "idle" /\ calls < MaxCalls
  /\ LET m == Message(q, fill)
     IN host_call' = [step |-> "send", q |-> q, sent |-> m, verdict |-> Pending,
                      buf |-> Crypt(m), buf_crypt |-> build_crypt_msg(m)]
  /\ calls' = calls + 1 /\ outcome' = Pending
  /\ UNCHANGED <<device, wire>>

\* boot_req: sendto; then recvfrom.
SendRequest ==
  /\ host_call.step = "send"
  /\ wire' = build_crypt_msg(host_call.sent)
  /\ host_call' = [host_call EXCEPT !.step = "wait"]
  /\ UNCHANGED <<device, outcome, calls>>

\* The test of each call on the n bytes of buf that were decrypted.
Accepts(q, buf, n) ==
  /\ n = q.wanted \/ (~q.exact /\ n > q.wanted)
  /\ buf[1] = q.sid + 64
  /\ SubSeq(buf, 2, q.echo + 1) = SubSeq(q.fixed, 1, q.echo)
Refuses(q, buf, n) == n = 3 /\ buf[1] = Refused /\ buf[2] = q.sid

Verdict(q, buf, n) ==
  CASE Accepts(q, buf, n) -> Positive
    [] Refuses(q, buf, n) -> buf[3]
    [] OTHER -> Failed

\* The call decrypts what is in buf_crypt, whatever boot_req returned.
Return(buf_crypt, n) ==
  LET m == decrypt_msg(buf_crypt, n)
  IN  host_call' = [host_call EXCEPT !.step = "idle", !.buf = Over(@, m),
                           !.buf_crypt = buf_crypt,
                           !.verdict = Verdict(host_call.q, Over(host_call.buf, m), Len(m))]

\* Mutant: the reply is decrypted where the request was, with its length.
OwnLength ==
  /\ host_call.step = "wait" /\ outcome # Pending
  /\ Return(Over(host_call.buf_crypt, wire), Len(host_call.sent) + 5)
  /\ wire' = <<>> /\ UNCHANGED <<device, outcome, calls>>

GetReply ==
  /\ host_call.step = "wait" /\ outcome # Pending
  /\ Return(Over(host_call.buf_crypt, wire), Len(wire))
  /\ wire' = <<>> /\ UNCHANGED <<device, outcome, calls>>

\* sendto or recvfrom fails: buf_crypt still holds the request's own frame.
\* The script ends, and a reply that is late goes to a closed socket.
SocketFails ==
  /\ host_call.step \in {"send", "wait"} /\ device.len = 0
  /\ Return(host_call.buf_crypt, NoFrame)
  /\ wire' = <<>> /\ outcome' = Failed /\ UNCHANGED <<device, calls>>

-----------------------------------------------------------------------------
(* The device: boot_main_task between FreeRTOS_recvfrom and the release.   *)

RequestHeard == SubSeq(device.buf_decrypt, 1, device.len)
Decrypt ==
  /\ wire # <<>> /\ outcome = Pending /\ device.len = 0
  /\ LET m == decrypt_msg(wire, Len(wire))
     IN device' = [device EXCEPT !.buf_decrypt = Over(@, m), !.len = Len(m)]
  /\ UNCHANGED <<host_call, wire, outcome, calls>>

\* tx_size bytes of buf_decrypt are masked where they are, framed in
\* buf_crypt, and copied over the request in the network's buffer.
SendReply(m) ==
  /\ device' = [len |-> 0, buf_decrypt |-> Over(device.buf_decrypt, Crypt(m)),
                buf_crypt |-> Over(device.buf_crypt, build_crypt_msg(m))]
  /\ wire' = build_crypt_msg(m)
  /\ UNCHANGED <<host_call, calls>>

\* The service answers in place: the bytes it does not set are the request's.
Agree(fill) ==
  /\ device.len # 0
  /\ \E q \in Requests :
       /\ device.len = q.len
       /\ SubSeq(RequestHeard, 1, 1 + Len(q.fixed)) = <<q.sid>> \o q.fixed
       /\ LET kept == SubSeq(RequestHeard, 2, IF q.reply < q.len THEN q.reply ELSE q.len)
          IN SendReply(<<q.sid + 64>> \o kept \o Same(q.reply - 1 - Len(kept), fill))
  /\ outcome' = Positive

\* The dispatcher or the service refuses.
Refuse(nrc) ==
  /\ device.len # 0
  /\ SendReply(<<Refused, device.buf_decrypt[1], nrc>>)
  /\ outcome' = nrc

NoHostCall == [step |-> "idle"]
Fresh  == [len |-> 0, buf_decrypt |-> <<>>, buf_crypt |-> <<>>]

FrameInit ==
  /\ host_call = NoHostCall /\ calls = 0
  /\ device = Fresh /\ wire = <<>> /\ outcome = Pending

\* The device starts again: the task's buffers are new.
TaskStarts ==
  /\ host_call.step = "idle" /\ calls > 0
  /\ host_call' = NoHostCall /\ calls' = 0
  /\ device' = Fresh /\ UNCHANGED <<wire, outcome>>

FrameNext ==
  \/ \E q \in Requests, fill \in Fills : Prepare(q, fill)
  \/ SendRequest \/ GetReply \/ SocketFails \/ TaskStarts
  \/ Decrypt
  \/ \E fill \in Fills : Agree(fill)
  \/ \E nrc \in Refusals : Refuse(nrc)

FrameSpec == FrameInit /\ [][FrameNext]_frameVars

-----------------------------------------------------------------------------
(***************************************************************************)
(* What decrypt_msg relies on and does not check holds of every frame that *)
(* the tool and the device send each other: it announces the bytes that it *)
(* carries, and the receiver's buffer holds them.  So neither end writes   *)
(* past a buffer as long as they talk to each other only; with the five    *)
(* bytes of framing the longest reply, the eight header bytes read back,   *)
(* fills buf_crypt to the last of its 16 bytes, and a full block fits the  *)
(* buffers of download_data exactly (boot_comm.cpp, boot_main_task).       *)
(***************************************************************************)
FramesFit ==
  /\ wire # <<>> =>
       /\ AnnouncedLength(wire) + 5 = Len(wire)
       /\ AnnouncedLength(wire) <= IF outcome = Pending THEN PlainSize ELSE BufSize(host_call.q)
  /\ Len(device.buf_decrypt) <= PlainSize /\ Len(device.buf_crypt) <= 16
  /\ calls > 0 =>
       /\ Len(host_call.buf) <= BufSize(host_call.q)
       /\ Len(host_call.buf_crypt) <= BufSize(host_call.q) + 5

(***************************************************************************)
(* What boot_main_task dispatches on is what the host put in its request,  *)
(* byte for byte: the length crosses a byte boundary, the flag may occur   *)
(* among the data, and buf_decrypt still holds the request before.         *)
(***************************************************************************)
HeardAsSent == device.len # 0 => RequestHeard = host_call.sent

(***************************************************************************)
(* What a call of boot_comm.cpp returns is what became of its request: the *)
(* decision of the service, or a failure when the socket failed.  The call *)
(* does not test the result of boot_req before it decrypts, so that after  *)
(* a failure it judges its own request; that never passes for a reply, and *)
(* a reply shorter than the request is never completed from it.            *)
(***************************************************************************)
VerdictTrue ==
  host_call.step = "idle" /\ calls > 0 => host_call.verdict = outcome
=============================================================================
