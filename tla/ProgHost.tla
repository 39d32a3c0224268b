------------------------------ MODULE ProgHost ------------------------------
(***************************************************************************)
(* The programming tool vci8_prog: vci_prog (vci_prog.cpp) over the        *)
(* requests of boot_comm.cpp.  It is one straight script.  Every request   *)
(* is sent once and answered by the next datagram that arrives: recvfrom   *)
(* has no timeout, nothing is sent again, and whatever is not the positive *)
(* reply to the request ends the script.                                   *)
(***************************************************************************)
EXTENDS Naturals, Sequences

LOCAL INSTANCE FiniteSetsExt
Seqs == INSTANCE SequencesExt

CONSTANTS
  File,        \* the segments of the S-record file inside the application's
               \* flash: a sequence of [addr, data] records
  Encrypted,   \* whether the file has the eight header bytes at address 0
  FileHeader,  \* those bytes
  SnMod,       \* sn is a uint8_t: 256 in the code
  KeyFor(_, _) \* the key for a seed in a session

VARIABLES
  host,  \* where the script is, and its local variables
  rx,    \* requests on their way to the device
  tx     \* replies on their way to the host

Steps == {"session", "seed", "key", "header", "erase", "erase_poll", "download",
          "xfer", "exit", "check", "check_poll", "reset"}
Ends  == {"done", "failed"}

\* All data of the file in order: what its CRC is computed over.
FileSum == Seqs!FlattenSeq([i \in DOMAIN File |-> File[i].data])

HostInit ==
  [step |-> "enter", waiting |-> FALSE, seed |-> 0,
   seg |-> 1, sent |-> 0, sn |-> 0, pos |-> 0,
   crc |-> IF Encrypted THEN FileSum ELSE <<>>]

-----------------------------------------------------------------------------
(* Requests                                                                *)

\* calculate_flash_address_range: the first address and the size to erase.
EraseRange ==
  LET first == Min({File[i].addr : i \in DOMAIN File})
      last  == Max({File[i].addr + Len(File[i].data) - 1 : i \in DOMAIN File})
  IN  <<first, last - first + 1>>

Segment == File[host.seg]

\* One block; vci8_enc encrypted all segments with a single keystream.
Block == [val |-> Segment.data[host.sent + 1],
          at  |-> IF Encrypted THEN <<FileHeader, host.pos>> ELSE <<>>]

\* sub is what the positive reply has to echo.
Message(sid, sub, arg) == [sid |-> sid, sub |-> sub, arg |-> arg]

Asked ==
  CASE host.step = "session"    -> Message("session_ctrl", <<>>, 2)
    [] host.step = "seed"       -> Message("security", <<"seed">>, 0)
    [] host.step = "key"        -> Message("security", <<"key">>, KeyFor(host.seed, 2))
    [] host.step = "header"     -> Message("write_id", <<>>, FileHeader)
    [] host.step = "erase"      -> Message("routine", <<"start_erase">>, EraseRange)
    [] host.step = "erase_poll" -> Message("routine", <<"erase_result">>, 0)
    [] host.step = "download"   -> Message("download", <<>>, <<Segment.addr, Len(Segment.data)>>)
    [] host.step = "xfer"       -> Message("xfer", <<host.sn>>, Block)
    [] host.step = "exit"       -> Message("exit", <<>>, 0)
    [] host.step = "check"      -> Message("routine", <<"start_checksum">>, host.crc)
    [] host.step = "check_poll" -> Message("routine", <<"checksum_result">>, 0)
    [] host.step = "reset"      -> Message("reset", <<>>, 0)

\* boot_req: sendto; a plain block enters the CRC before it is sent.
Ask ==
  /\ host.step \in Steps /\ ~host.waiting
  /\ rx' = Append(rx, Asked)
  /\ host' = [host EXCEPT !.waiting = TRUE,
                          !.crc = IF host.step = "xfer" /\ ~Encrypted
                                  THEN Append(@, Block.val) ELSE @]
  /\ UNCHANGED tx

\* enter_boot_req: one datagram to the application, and no wait for a reply.
EnterBoot ==
  /\ host.step = "enter"
  /\ host' = [host EXCEPT !.step = "session"]
  /\ UNCHANGED <<rx, tx>>

-----------------------------------------------------------------------------
(* Replies                                                                 *)

Answers(r) == r.nrc = 0 /\ r.sid = Asked.sid /\ Seqs!IsPrefix(Asked.sub, r.val)

Move(from, to) ==
  /\ host.step = from
  /\ host' = [host EXCEPT !.step = to, !.waiting = FALSE]

\* Mutant: a routine that is not over has not failed.
NotFailed(from, to, result) ==
  \/ result \in {0, 1} /\ Move(from, to)
  \/ result \notin {0, 1} /\ Move(from, "failed")

\* The routines' results: 0 asks again, 1 is success.
Polled(from, to, result) ==
  \/ result = 0 /\ Move(from, from)
  \/ result = 1 /\ Move(from, to)
  \/ result \notin {0, 1} /\ Move(from, "failed")

TakeSeed(seed) ==
  /\ host.step = "seed"
  /\ host' = [host EXCEPT !.step = "key", !.waiting = FALSE, !.seed = seed]

OpenSegment ==
  /\ host.step = "download"
  /\ host' = [host EXCEPT !.step = "xfer", !.waiting = FALSE, !.sent = 0, !.sn = 1 % SnMod]

\* The block was taken: the next one, the next segment, or the end.
NextBlock ==
  /\ host.step = "xfer"
  /\ LET more    == host.sent + 1 < Len(Segment.data)
         another == host.seg < Len(File)
     IN  host' = [host EXCEPT
           !.step = IF more THEN "xfer" ELSE IF another THEN "download" ELSE "exit",
           !.waiting = FALSE, !.sent = @ + 1, !.sn = (@ + 1) % SnMod, !.pos = @ + 1,
           !.seg = IF ~more /\ another THEN @ + 1 ELSE @]

Hear ==
  /\ host.waiting /\ tx # <<>>
  /\ tx' = Tail(tx) /\ UNCHANGED rx
  /\ LET r == Head(tx) IN
     \/ /\ Answers(r)
        /\ \/ Move("session", "seed")
           \/ host.step = "seed" /\ TakeSeed(r.val[2])
           \/ Move("key", IF Encrypted THEN "header" ELSE "erase")
           \/ Move("header", "erase")
           \/ Move("erase", "erase_poll")
           \/ host.step = "erase_poll" /\ Polled("erase_poll", "download", r.val[2])
           \/ OpenSegment
           \/ NextBlock
           \/ Move("exit", "check")
           \/ Move("check", "check_poll")
           \/ host.step = "check_poll" /\ Polled("check_poll", "reset", r.val[2])
           \/ Move("reset", "done")
     \/ /\ ~Answers(r)
        /\ Move(host.step, "failed")

HostNext == EnterBoot \/ Ask \/ Hear
=============================================================================
