----------------------------- MODULE BootServer -----------------------------
(***************************************************************************)
(* The device side of the bootloader: the two FreeRTOS tasks of            *)
(* sample_boot/boot_app.c over the flash driver, and the boot check of the *)
(* start-up code.                                                          *)
(*                                                                         *)
(*   boot_main     (priority 4) receives a datagram, decrypts it, looks    *)
(*                 the service up in boot_service_table, runs its handler  *)
(*                 and sends the reply.  It never blocks inside a handler, *)
(*                 so a handler is one action.                             *)
(*   boot_routine  (priority 3) polls erase_routine_data.req and erases.   *)
(*                 boot_main preempts it between any two of its stores, so *)
(*                 it has one action per store the other task can see.     *)
(*                                                                         *)
(* The requests are those of any number of clients in any order.  Replies  *)
(* go to tx, from where a composition takes them (Listening); without one  *)
(* nobody reads them and they are not kept.                                *)
(***************************************************************************)
EXTENDS FlashDrv, Sequences

CONSTANTS
  FlagAddr,     \* APP_VALID_FLAG_ADDR
  AppFlag,      \* APP_VALID_PATTERN and its complement, at FlagAddr
  Data,         \* the values one programmable unit of an image can hold
  Scrambled,    \* what decrypting out of step yields
  Headers,      \* values of enc_header
  NoHeader,     \* its initial value, eight zero bytes
  Seeds,        \* values Rnd() can return, 0 among them
  SessionArgs,  \* sub-functions of service 0x10 that clients send
  EraseRanges,  \* <<address, size>> pairs in erase requests
  LoadRanges,   \* <<address, size>> pairs in download requests
  EncFlags,     \* values of the encrypt flag in download requests
  SnMod,        \* the block sequence number is a uint8_t: 256 on the device
  MaxTotal,     \* bound: units transferred between two session resets
  MaxPos,       \* bound: units decrypted since the key was set
  Listening     \* whether replies are kept for a client to receive

ASSUME BootServerAssumption ==
  /\ FlagAddr \in Cells \ BootCells
  /\ Programs = Data \cup {Scrambled, AppFlag}
  /\ AppFlag \notin Data \cup {Scrambled, Erased, Damaged, BootCode}
  /\ NoHeader \in Headers
  /\ 0 \in Seeds /\ Seeds \subseteq Nat
  /\ SessionArgs \subseteq Nat
  /\ EraseRanges \subseteq Addr \X Addr /\ LoadRanges \subseteq Addr \X Addr
  /\ EncFlags \subseteq BOOLEAN /\ Listening \in BOOLEAN
  /\ SnMod \in Nat \ {0} /\ MaxTotal \in Nat /\ MaxPos \in Nat

VARIABLES
  mode,      \* "boot" while the bootloader runs, "app" once it jumped away
  enter_req, \* ENTER_BOOT_REQ_FLAG, in RAM shared with the application
  tx,        \* the replies sent and not yet received
  svc,       \* svc_state, the service state of boot_main_task
  erase,     \* erase_routine_data
  csum,      \* checksum_routine_data
  pc,        \* where erase_routine_task is in its loop
  cipher,    \* enc_header and rc4_ctx: the key's header and the units used
  \* History variables, read by properties only.
  folded,    \* <<address, value>> pairs read back into svc.checksum, less
             \* those an erase was asked for since, or at the time
  image,     \* folded as it was when the application flag was programmed,
             \* less those an erase was asked for since
  job        \* the fate of the last accepted erase request; aborted when a
             \* reset came before its end was published

bootVars  == <<mode, enter_req>>
taskVars  == <<erase, pc, job>>
flashVars == <<flash, ers>>
hist      == <<folded, image>>
vars      == <<mode, enter_req, tx, svc, erase, csum, pc, cipher, flash, ers,
               folded, image, job>>

-----------------------------------------------------------------------------
(* State                                                                   *)

\* Session n is bit n-1 of the code's session and unlocked bytes.
Sessions == 1 .. 8

\* boot_service_data_init.  compress_flag is stored and never read.
ServiceInit ==
  [session |-> 1, unlocked |-> {}, seed |-> 0, reset_req |-> FALSE,
   flash_prog_state |-> 0, download_req_addr |-> 0, download_req_size |-> 0,
   encrypt_flag |-> FALSE, expected_xfer_block_sn |-> 0,
   xfer_data_rcvd_cnt |-> 0, total_xfer_data_cnt |-> 0,
   checksum |-> <<>>]   \* 0xFFFFFFFF, the CRC of nothing

EraseInit == [state |-> 0, req |-> 0, result |-> 0, address |-> 0, size |-> 0,
              failed |-> FALSE]   \* error_code # STATUS_SUCCESS
CsumInit   == [state |-> 0, result |-> 0]
CipherInit == [header |-> NoHeader, key |-> NoHeader, pos |-> 0]

AppFlagValid == flash[FlagAddr] = AppFlag

\* boot_service_data_t and boot_erase_flash_routine_t.
SvcType ==
  [session : Sessions, unlocked : SUBSET Sessions, seed : Seeds,
   reset_req : BOOLEAN, flash_prog_state : {0, 1},
   download_req_addr : Addr, download_req_size : Addr,
   encrypt_flag : BOOLEAN, expected_xfer_block_sn : 0 .. SnMod - 1,
   xfer_data_rcvd_cnt : Nat, total_xfer_data_cnt : 0 .. MaxTotal,
   checksum : Seq(Content)]
EraseType == [state : 0 .. 2, req : 0 .. 1, result : 0 .. 2,
              address : Addr, size : Addr, failed : BOOLEAN]

TypeOK ==
  /\ FlashTypeOK
  /\ mode \in {"boot", "app"} /\ enter_req \in BOOLEAN
  /\ svc \in SvcType /\ erase \in EraseType
  /\ csum \in [state : {0, 2}, result : 0 .. 2]
  /\ pc \in {"poll", "taken", "begin", "wait", "judge", "publish"}
  /\ cipher \in [header : Headers, key : Headers, pos : Nat]
  /\ folded \subseteq Addr \X Content /\ image \subseteq Addr \X Content
  /\ job \in {"none", "pending", "ok", "failed", "aborted"}

TasksInit ==
  /\ mode = "boot" /\ enter_req = FALSE /\ tx = <<>>
  /\ svc = ServiceInit /\ erase = EraseInit /\ csum = CsumInit
  /\ pc = "poll" /\ cipher = CipherInit
  /\ folded = {} /\ image = {} /\ job = "none"

Init == FlashInit /\ TasksInit

-----------------------------------------------------------------------------
(* boot_main: receiving, dispatching and answering                         *)

\* The rows of boot_service_table: is unlocking required, in which sessions.
Service ==
  [session_ctrl |-> [unlock |-> FALSE, sessions |-> {1, 2}],
   reset        |-> [unlock |-> FALSE, sessions |-> {1, 2}],
   tester       |-> [unlock |-> FALSE, sessions |-> {1, 2}],
   routine      |-> [unlock |-> TRUE,  sessions |-> {2}],
   download     |-> [unlock |-> TRUE,  sessions |-> {2}],
   xfer         |-> [unlock |-> TRUE,  sessions |-> {2}],
   exit         |-> [unlock |-> TRUE,  sessions |-> {2}],
   security     |-> [unlock |-> FALSE, sessions |-> {1, 2}],
   write_id     |-> [unlock |-> TRUE,  sessions |-> {2}],
   read_id      |-> [unlock |-> FALSE, sessions |-> {1, 2}]]

\* The negative response codes, by their names in the diagnostic protocol.
ServiceNotSupported     == 17    \* 0x11
SubFunctionNotSupported == 18    \* 0x12
IncorrectLength         == 19    \* 0x13
ConditionsNotCorrect    == 34    \* 0x22
SequenceError           == 36    \* 0x24
OutOfRange              == 49    \* 0x31
AccessDenied            == 51    \* 0x33
InvalidKey              == 53    \* 0x35
ProgrammingFailure      == 114   \* 0x72
NotInThisSession        == 127   \* 0x7F

(***************************************************************************)
(* A reply names the service it answers; nrc is 0 when it is positive.     *)
(* val is what else of a positive reply a client looks at: the             *)
(* sub-function or block number it echoes, and the value it carries.       *)
(***************************************************************************)
Send(sid, nrc, val) ==
  tx' = IF Listening THEN Append(tx, [sid |-> sid, nrc |-> nrc, val |-> val]) ELSE tx
Accept(sid)        == Send(sid, 0, <<>>)
Reject(sid, codes) == \E nrc \in codes : Send(sid, nrc, <<>>)

\* boot_main is in FreeRTOS_recvfrom, not in the delay before a reset.
Receiving == mode = "boot" /\ ~svc.reset_req

InSession(sid) == svc.session \in Service[sid].sessions
Unlocked(sid)  == Service[sid].unlock => svc.session \in svc.unlocked
Served(sid)    == Receiving /\ InSession(sid) /\ Unlocked(sid)

\* Everything but the replies, and everything but the replies and svc.
Inert    == UNCHANGED <<bootVars, svc, taskVars, csum, cipher, flashVars, hist>>
SvcAlone == UNCHANGED <<bootVars, taskVars, csum, cipher, flashVars, hist>>

\* The dispatcher answers for the handler: wrong session, or locked.
Refuse(sid) ==
  /\ Receiving
  /\ ~(InSession(sid) /\ Unlocked(sid))
  /\ Reject(sid, {IF InSession(sid) THEN AccessDenied ELSE NotInThisSession})
  /\ Inert

\* A service id not in the table, or a length outside its row.
Malformed(sid) ==
  /\ Receiving
  /\ Reject(sid, {ServiceNotSupported, IncorrectLength})
  /\ Inert

\* Mutant: a transfer holds the session open.
SilenceOutsideTransfer ==
  /\ Receiving /\ svc.flash_prog_state = 0
  /\ svc' = ServiceInit
  /\ folded' = {}
  /\ UNCHANGED <<bootVars, tx, taskVars, csum, cipher, flashVars, image>>

\* FreeRTOS_recvfrom timed out, or returned an empty datagram.
Silence ==
  /\ Receiving
  /\ svc' = ServiceInit
  /\ folded' = {}
  /\ UNCHANGED <<bootVars, tx, taskVars, csum, cipher, flashVars, image>>

-----------------------------------------------------------------------------
(* boot_main: session, security and identification services                *)

\* Mutant: changing the session changes nothing else.
SwitchSession(n) == [svc EXCEPT !.session = n]

NewSession(n) == [ServiceInit EXCEPT !.session = n]

\* session_ctrl_svc: any of eight sessions, of which the table serves two.
SessionCtrl(n) ==
  /\ Served("session_ctrl")
  /\ IF n \in 1 .. 8
     THEN /\ svc' = NewSession(n)
          /\ folded' = {}
          /\ Accept("session_ctrl")
     ELSE /\ Reject("session_ctrl", {SubFunctionNotSupported})
          /\ UNCHANGED <<svc, folded>>
  /\ UNCHANGED <<bootVars, taskVars, csum, cipher, flashVars, image>>

\* reset_svc: the reset itself follows the reply (Reset below).
RequestReset ==
  /\ Served("reset")
  /\ svc' = [svc EXCEPT !.reset_req = TRUE]
  /\ Accept("reset") /\ SvcAlone

TesterPresent == Served("tester") /\ Accept("tester") /\ Inert

\* sec_access_svc, sub-function 1: Rnd() may return 0.
RequestSeed ==
  /\ Served("security")
  /\ \E s \in Seeds : svc' = [svc EXCEPT !.seed = s] /\ Send("security", 0, <<"seed", s>>)
  /\ SvcAlone

\* The key a seed asks for in a session; LFSR32 is one-to-one in the seed.
KeyFor(seed, session) == <<seed, session>>

\* sec_access_svc, sub-function 2.
SendKey(key) ==
  /\ Served("security")
  /\ \/ /\ svc.seed = 0
        /\ Reject("security", {SequenceError})
        /\ UNCHANGED svc
     \/ /\ svc.seed # 0 /\ key = KeyFor(svc.seed, svc.session)
        /\ svc' = [svc EXCEPT !.unlocked = @ \cup {svc.session}, !.seed = 0]
        /\ Send("security", 0, <<"key">>)
     \/ /\ svc.seed # 0 /\ key # KeyFor(svc.seed, svc.session)
        /\ svc' = [svc EXCEPT !.unlocked = @ \ {svc.session}, !.seed = 0]
        /\ Reject("security", {InvalidKey})
  /\ SvcAlone

\* sec_access_svc, any other sub-function.
SecurityOther ==
  /\ Served("security")
  /\ svc' = [svc EXCEPT !.seed = 0]
  /\ Reject("security", {SubFunctionNotSupported}) /\ SvcAlone

\* write_data_by_id_svc: identifier 0 is enc_header, 1 may only be read.
WriteHeader(h) ==
  /\ Served("write_id")
  /\ cipher' = [cipher EXCEPT !.header = h]
  /\ Accept("write_id")
  /\ UNCHANGED <<bootVars, svc, taskVars, csum, flashVars, hist>>

WriteOther ==
  /\ Served("write_id")
  /\ Reject("write_id", {AccessDenied, IncorrectLength, OutOfRange}) /\ Inert

ReadHeader == Served("read_id") /\ Send("read_id", 0, <<cipher.header>>) /\ Inert
\* Identifier 1, svn_rev, or one there is not.
ReadOther == Served("read_id") /\ Reject("read_id", {0, OutOfRange}) /\ Inert

-----------------------------------------------------------------------------
(* boot_main: routine_ctrl_svc                                             *)

\* History: what is left of a set of pairs when the range is to be wiped.
Unasked(pairs, a, n) == {c \in pairs : c[1] \notin Touched(a, n)}

\* Mutant: a request that was taken no longer counts.
EraseWaiting == erase.req # 0

EraseBusy == erase.state = 1 \/ erase.req # 0

\* Mutant: the result of the last erase is left in place.
KeepResult(a, n) == [erase EXCEPT !.address = a, !.size = n, !.req = 1]

ArmErase(a, n) == [erase EXCEPT !.result = 0, !.address = a, !.size = n, !.req = 1]

(***************************************************************************)
(* An erase is refused while one is running or waiting.  A result left     *)
(* from an earlier erase is cleared, but not its state: the task sets      *)
(* that, when it takes the request.                                        *)
(***************************************************************************)
EraseStart(a, n) ==
  /\ Served("routine")
  /\ \/ /\ ~check_flash_address_valid(a, n)
        /\ Reject("routine", {OutOfRange})
        /\ UNCHANGED <<erase, hist, job>>
     \/ /\ check_flash_address_valid(a, n) /\ EraseBusy
        /\ Reject("routine", {ConditionsNotCorrect})
        /\ UNCHANGED <<erase, hist, job>>
     \/ /\ check_flash_address_valid(a, n) /\ ~EraseBusy
        /\ erase' = ArmErase(a, n)
        /\ folded' = Unasked(folded, a, n)
        /\ image' = Unasked(image, a, n)
        /\ job' = "pending"
        /\ Send("routine", 0, <<"start_erase">>)
  /\ UNCHANGED <<bootVars, svc, csum, pc, cipher, flashVars>>

\* A completed erase is reported once; one under way is reported as 0.
EraseResult ==
  /\ Served("routine")
  /\ \/ /\ erase.state = 2
        /\ erase' = [erase EXCEPT !.state = 0]
        /\ Send("routine", 0, <<"erase_result", erase.result>>)
     \/ /\ erase.state = 1 \/ (erase.state = 0 /\ erase.req = 1)
        /\ Send("routine", 0, <<"erase_result", 0>>)
        /\ UNCHANGED erase
     \/ /\ erase.state = 0 /\ erase.req = 0
        /\ Reject("routine", {SequenceError})
        /\ UNCHANGED erase
  /\ UNCHANGED <<bootVars, svc, csum, pc, job, cipher, flashVars, hist>>

\* Mutant: nothing transferred is as good as something.
AnyTransfer == TRUE

\* Something was transferred since the session began.
Transferred == svc.total_xfer_data_cnt # 0

(***************************************************************************)
(* The client's checksum against that of what was read back.  CRC-32 is    *)
(* abstracted to the sequence of values it was computed over.  When they   *)
(* match the application flag is written, and the image is bootable.       *)
(***************************************************************************)
ChecksumStart(sum) ==
  /\ Served("routine")
  /\ \/ /\ ~Transferred
        /\ Reject("routine", {ConditionsNotCorrect})
        /\ UNCHANGED <<csum, flash, image>>
     \/ /\ Transferred /\ sum # svc.checksum
        /\ csum' = [state |-> 2, result |-> 0]
        /\ Send("routine", 0, <<"start_checksum">>)
        /\ UNCHANGED <<flash, image>>
     \/ /\ Transferred /\ sum = svc.checksum
        /\ flash_write_succeeds(FlagAddr, AppFlag)
        /\ csum' = [state |-> 2, result |-> 1]
        /\ image' = IF flash' = flash THEN image ELSE folded
        /\ Send("routine", 0, <<"start_checksum">>)
     \/ /\ Transferred /\ sum = svc.checksum
        /\ flash_write_fails(FlagAddr)
        /\ csum' = [state |-> 2, result |-> 2]
        /\ UNCHANGED image
        /\ Send("routine", 0, <<"start_checksum">>)
  /\ UNCHANGED <<bootVars, svc, taskVars, cipher, ers, folded>>

ChecksumResult ==
  /\ Served("routine")
  /\ \/ /\ csum.state = 2
        /\ csum' = [csum EXCEPT !.state = 0]
        /\ Send("routine", 0, <<"checksum_result", csum.result>>)
     \/ /\ csum.state = 0
        /\ Reject("routine", {SequenceError})
        /\ UNCHANGED csum
  /\ UNCHANGED <<bootVars, svc, taskVars, cipher, flashVars, hist>>

\* A wrong length, routine or sub-function.
RoutineOther ==
  /\ Served("routine")
  /\ Reject("routine", {IncorrectLength, OutOfRange, SubFunctionNotSupported})
  /\ Inert

-----------------------------------------------------------------------------
(* boot_main: transfer services                                            *)

\* Mutant: the count goes on from the transfer before.
ContinueTransfer(a, n, enc) ==
  [svc EXCEPT !.expected_xfer_block_sn = 1 % SnMod, !.flash_prog_state = 1,
              !.download_req_addr = a, !.download_req_size = n,
              !.encrypt_flag = enc]

OpenTransfer(a, n, enc) ==
  [svc EXCEPT !.expected_xfer_block_sn = 1 % SnMod, !.flash_prog_state = 1,
              !.xfer_data_rcvd_cnt = 0,
              !.download_req_addr = a, !.download_req_size = n,
              !.encrypt_flag = enc]

(***************************************************************************)
(* download_req_svc: opens a transfer.  The key is set up only when no     *)
(* transfer was open, so that the segments of one image share a keystream. *)
(***************************************************************************)
DownloadReq(a, n, enc) ==
  /\ Served("download")
  /\ \/ /\ check_flash_address_valid(a, n)
        /\ cipher' = IF svc.flash_prog_state = 0
                     THEN [cipher EXCEPT !.key = cipher.header, !.pos = 0]
                     ELSE cipher
        /\ svc' = OpenTransfer(a, n, enc)
        /\ Accept("download")
     \/ /\ ~check_flash_address_valid(a, n)
        /\ svc' = [svc EXCEPT !.flash_prog_state = 0]
        /\ Reject("download", {OutOfRange})
        /\ UNCHANGED cipher
  /\ UNCHANGED <<bootVars, taskVars, csum, flashVars, hist>>

\* A format byte out of range, or too few bytes for it.
DownloadOther ==
  /\ Served("download")
  /\ svc' = [svc EXCEPT !.flash_prog_state = 0]
  /\ Reject("download", {IncorrectLength, SubFunctionNotSupported}) /\ SvcAlone

(***************************************************************************)
(* A transferred block is one programmable unit: its value, and the place  *)
(* in a keystream it was encrypted at (Plain when it was not).  rc4 yields *)
(* the value only at that place of that key's stream.                      *)
(***************************************************************************)
Plain      == <<>>
Keystream  == IF svc.encrypt_flag THEN <<cipher.key, cipher.pos>> ELSE Plain
Decrypt(b) == IF b.at = Keystream THEN b.val ELSE Scrambled

NextAddr == Plus(svc.download_req_addr, svc.xfer_data_rcvd_cnt)

TransferOpen(sn) ==
  /\ svc.flash_prog_state = 1
  /\ svc.download_req_size >= svc.xfer_data_rcvd_cnt + 1
  /\ sn = svc.expected_xfer_block_sn

\* Bounds: a transfer they exclude does not arrive.
WithinBounds == /\ svc.total_xfer_data_cnt < MaxTotal
                /\ svc.encrypt_flag => cipher.pos < MaxPos

\* Mutant: the checksum is over the bytes received.
CrcOverRequest(b) == {Decrypt(b)}

\* The checksum is over what is read back from the flash.
CrcOver(b) == Read(flash', NextAddr)

\* The unit was written, or seems so.
TakeUnit(b) ==
  /\ \E v \in CrcOver(b) :
       /\ svc' = [svc EXCEPT !.checksum = Append(@, v),
                             !.expected_xfer_block_sn = (@ + 1) % SnMod,
                             !.xfer_data_rcvd_cnt = @ + 1,
                             !.total_xfer_data_cnt = @ + 1]
       /\ folded' = IF job = "pending" /\ NextAddr \in Touched(erase.address, erase.size)
                    THEN folded ELSE folded \cup {<<NextAddr, v>>}
  /\ Send("xfer", 0, <<svc.expected_xfer_block_sn>>)

(***************************************************************************)
(* xfer_data_svc.  The keystream advances before the unit is written,      *)
(* whether or not that succeeds.                                           *)
(***************************************************************************)
XferData(sn, b) ==
  /\ Served("xfer")
  /\ \/ /\ ~TransferOpen(sn)
        /\ Reject("xfer", {SequenceError})
        /\ UNCHANGED <<svc, cipher, flash, folded>>
     \/ /\ TransferOpen(sn) /\ WithinBounds
        /\ cipher' = IF svc.encrypt_flag THEN [cipher EXCEPT !.pos = @ + 1] ELSE cipher
        /\ \/ flash_write_succeeds(NextAddr, Decrypt(b)) /\ TakeUnit(b)
           \/ /\ flash_write_fails(NextAddr)
              /\ Reject("xfer", {ProgrammingFailure})
              /\ UNCHANGED <<svc, folded>>
  /\ UNCHANGED <<bootVars, taskVars, csum, ers, image>>

ExitXfer ==
  /\ Served("exit")
  /\ Reject("exit", {IF svc.flash_prog_state = 1 THEN 0 ELSE SequenceError})
  /\ svc' = [svc EXCEPT !.flash_prog_state = 0]
  /\ SvcAlone

-----------------------------------------------------------------------------
(* boot_routine: erase_routine_task, one action per store                  *)

TaskOnly == UNCHANGED <<bootVars, tx, svc, csum, cipher, hist>>

\* The request is seen and state set to 1; the address cannot change now.
TakeErase ==
  /\ pc = "poll" /\ erase.req = 1
  /\ erase' = [erase EXCEPT !.state = 1]
  /\ pc' = "taken"
  /\ UNCHANGED <<job, flashVars>> /\ TaskOnly

ClearRequest ==
  /\ pc = "taken"
  /\ erase' = [erase EXCEPT !.req = 0]
  /\ pc' = "begin"
  /\ UNCHANGED <<job, flashVars>> /\ TaskOnly

\* flash_erase, up to the start of the high voltage.
BeginErase ==
  /\ pc = "begin"
  /\ LET sel == flash_get_block_select(erase.address, erase.size) IN
     \/ /\ EraseBegins(sel)
        /\ pc' = "wait"
        /\ UNCHANGED <<erase, job>>
     \/ /\ EraseOfNothing(sel)
        /\ erase' = [erase EXCEPT !.failed = FALSE]
        /\ pc' = "judge" /\ job' = "ok"
     \/ /\ EraseNotEnabled(sel)
        /\ erase' = [erase EXCEPT !.failed = TRUE]
        /\ pc' = "judge" /\ job' = "failed"
  /\ TaskOnly

\* flash_erase: the loop on FLASH_DRV_CheckEraseStatus ends.
EndErase ==
  /\ pc = "wait"
  /\ \/ EraseDone   /\ erase' = [erase EXCEPT !.failed = FALSE] /\ job' = "ok"
     \/ EraseFailed /\ erase' = [erase EXCEPT !.failed = TRUE]  /\ job' = "failed"
  /\ pc' = "judge"
  /\ TaskOnly

\* Mutants: the status for the result; no result for a failure.
StatusForResult(failed) == IF failed THEN 3 ELSE 0
OnlySuccess(failed)     == IF failed THEN 0 ELSE 1

EraseVerdict(failed) == IF failed THEN 2 ELSE 1

JudgeErase ==
  /\ pc = "judge"
  /\ erase' = [erase EXCEPT !.result = EraseVerdict(erase.failed)]
  /\ pc' = "publish"
  /\ UNCHANGED <<job, flashVars>> /\ TaskOnly

\* Mutant: back to polling without a word.
PublishNothing ==
  /\ pc = "publish" /\ pc' = "poll"
  /\ UNCHANGED <<erase, job, flashVars>> /\ TaskOnly

PublishErase ==
  /\ pc = "publish"
  /\ erase' = [erase EXCEPT !.state = 2]
  /\ pc' = "poll"
  /\ UNCHANGED <<job, flashVars>> /\ TaskOnly

EraseTask == \/ TakeErase \/ ClearRequest \/ BeginErase \/ EndErase
             \/ JudgeErase \/ PublishErase

-----------------------------------------------------------------------------
(* Resets and the boot check                                               *)

(***************************************************************************)
(* The start-up code jumps to the application when its flag is programmed  *)
(* and the application did not ask for the bootloader; otherwise it clears *)
(* the RAM, the request in it, and starts the two tasks.                   *)
(***************************************************************************)
StartUp(asked) ==
  /\ CutErase
  /\ mode' = IF flash'[FlagAddr] = AppFlag /\ ~asked THEN "app" ELSE "boot"
  /\ enter_req' = FALSE
  /\ svc' = ServiceInit /\ erase' = EraseInit /\ csum' = CsumInit
  /\ pc' = "poll" /\ cipher' = CipherInit
  /\ folded' = {}
  /\ job' = IF job = "pending" \/ pc # "poll" THEN "aborted" ELSE job
  /\ UNCHANGED <<tx, image>>

\* SystemSoftwareReset, 200 ms after the reply to reset_svc.
Reset == mode = "boot" /\ svc.reset_req /\ StartUp(enter_req)

\* The RAM holds anything when the power comes back.
PowerLoss == "power" \in Faults /\ \E asked \in BOOLEAN : StartUp(asked)

\* The application asks for the bootloader, and resets to get it.
AppAsks   == mode = "app" /\ enter_req' = TRUE /\ UNCHANGED <<mode, tx, svc, taskVars, csum, cipher, flashVars, hist>>
AppResets == mode = "app" /\ StartUp(enter_req)

-----------------------------------------------------------------------------
(* Specification                                                           *)

\* The keys a client may try, and the units it may transfer.
Keys  == {KeyFor(s, n) : s \in Seeds, n \in {1, 2}}
Units == [val : Data, at : {Plain} \cup (IF TRUE \in EncFlags
                                         THEN Headers \X (0 .. MaxPos) ELSE {})]

DispatchNext ==
  \/ \E sid \in DOMAIN Service : Refuse(sid) \/ Malformed(sid)
  \/ TesterPresent \/ RequestReset

SessionNext ==
  \/ \E n \in SessionArgs : SessionCtrl(n)
  \/ RequestSeed \/ SecurityOther
  \/ \E key \in Keys : SendKey(key)

DataNext ==
  \/ \E h \in Headers : WriteHeader(h)
  \/ WriteOther \/ ReadHeader \/ ReadOther

RoutineNext ==
  \/ \E r \in EraseRanges : EraseStart(r[1], r[2])
  \/ \E sum \in {svc.checksum, <<>>} : ChecksumStart(sum)
  \/ EraseResult \/ ChecksumResult \/ RoutineOther

TransferNext ==
  \/ \E r \in LoadRanges, enc \in EncFlags : DownloadReq(r[1], r[2], enc)
  \/ \E sn \in 0 .. SnMod - 1, b \in Units : XferData(sn, b)
  \/ DownloadOther \/ ExitXfer

\* Any client, at any time.
Request == DispatchNext \/ SessionNext \/ DataNext \/ RoutineNext \/ TransferNext

Next ==
  \/ Request \/ Silence
  \/ EraseTask
  \/ Reset \/ PowerLoss \/ AppAsks \/ AppResets

Spec == Init /\ [][Next]_vars

(***************************************************************************)
(* The scheduler runs boot_routine whenever boot_main waits, and an erase  *)
(* ends; the delay before a reset ends.  Clients promise nothing.          *)
(***************************************************************************)
FairSpec == Spec /\ WF_vars(EraseTask) /\ WF_vars(Reset)

-----------------------------------------------------------------------------
(* Safety                                                                  *)

(***************************************************************************)
(* The unlocked byte has one bit per session; no sequence of session       *)
(* changes, seeds, keys and silences leaves a bit set for a session that   *)
(* is not the current one, so that coming back to a session never finds it *)
(* unlocked (session_ctrl_svc, sec_access_svc, boot_service_data_init).    *)
(***************************************************************************)
UnlockedOnlyHere == svc.unlocked \subseteq {svc.session}

(***************************************************************************)
(* While a transfer is open its range passed the check, no more was taken  *)
(* than it announced, and the block number expected is the count of blocks *)
(* taken since it was opened, as an 8-bit number, whatever writes failed   *)
(* and however the transfers before it ended (download_req_svc,            *)
(* xfer_data_svc).                                                         *)
(***************************************************************************)
TransferWindow ==
  svc.flash_prog_state = 1 =>
    /\ check_flash_address_valid(svc.download_req_addr, svc.download_req_size)
    /\ svc.xfer_data_rcvd_cnt <= svc.download_req_size
    /\ svc.expected_xfer_block_sn = (svc.xfer_data_rcvd_cnt + 1) % SnMod

(***************************************************************************)
(* A completed state with result 1 or 2 tells the fate of the last erase   *)
(* that was accepted, not of an earlier one: the two tasks share the five  *)
(* fields without a lock (routine_ctrl_svc, erase_routine_task).           *)
(***************************************************************************)
EraseResultHonest ==
  erase.state = 2 => /\ erase.result = 1 => job = "ok"
                     /\ erase.result = 2 => job = "failed"

(***************************************************************************)
(* A client that polls a completed erase while no new one waits is never   *)
(* told 0, "no result", and so never consumes the completion unread.       *)
(***************************************************************************)
EraseOutcomeReady == erase.state = 2 /\ erase.req = 0 => erase.result # 0

(***************************************************************************)
(* From the moment an erase is accepted until it is over, the range that   *)
(* boot_routine reads field by field does not change under it.             *)
(***************************************************************************)
EraseRangeStable ==
  [][job = "pending" /\ job' = "pending" =>
       erase'.address = erase.address /\ erase'.size = erase.size]_vars

(***************************************************************************)
(* As long as the flag makes the image bootable, every unit the accepted   *)
(* checksum covered still holds what was read back then, unless it read    *)
(* blank, is no flash, or a client asked for an erase of its block: no     *)
(* stray write, no erase of another range, no cut-off erase touched it.    *)
(***************************************************************************)
ImageSound ==
  AppFlagValid => \A c \in image : c[1] \in Cells /\ c[2] # Erased => flash[c[1]] = c[2]

(***************************************************************************)
(* The bootloader's own flash never changes, whatever ranges the clients   *)
(* send, through erases and writes, complete, failed or cut off.           *)
(***************************************************************************)
BootCodeIntact == \A a \in BootCells : flash[a] = BootCode

(***************************************************************************)
(* An image becomes bootable in one way only: an unlocked client's         *)
(* checksum matches that of at least one unit read back since the session  *)
(* began, and that client is told so.                                      *)
(***************************************************************************)
FlagOnlyByChecksum ==
  [][~AppFlagValid /\ AppFlagValid' =>
       /\ mode = "boot" /\ svc.session \in svc.unlocked
       /\ svc.total_xfer_data_cnt # 0
       /\ csum' = [state |-> 2, result |-> 1]]_vars

(***************************************************************************)
(* What boot_app.c calls result 2, "program fail", the only value it has   *)
(* for a flag that was not programmed: with result 1 the flag is in flash. *)
(* The code does not keep this: WriteLost reports success.                 *)
(***************************************************************************)
ChecksumOkIsBootable ==
  [][csum'.state = 2 /\ csum'.result = 1 /\ csum # csum' => AppFlagValid']_vars

-----------------------------------------------------------------------------
(* Liveness                                                                *)

(***************************************************************************)
(* An accepted erase is carried out, fails, or is cut off by a reset, and  *)
(* the state a client polls then says that it is over.                     *)
(***************************************************************************)
EraseAnswered ==
  job = "pending" ~> \/ erase.state = 2 /\ erase.result # 0
                     \/ job = "aborted"

(***************************************************************************)
(* Once the clients fall silent the device is back in the default session  *)
(* and locked, for good, whatever they left open: recvfrom times out.      *)
(***************************************************************************)
RelocksWhenQuiet ==
  <>[][~Request]_vars /\ WF_vars(Silence)
    => <>[](svc.session = 1 /\ svc.unlocked = {} /\ svc.flash_prog_state = 0)
=============================================================================
