-------------------------- MODULE BootServerProofs --------------------------
(***************************************************************************)
(* Theorems about BootServer for every flash map, every set of clients'    *)
(* requests, every choice of failures and every bound: its types, the      *)
(* erase handshake and the image, and who may do what to the device (the   *)
(* session lock, the transfer window, the bootloader's own flash and the   *)
(* flag).                                                                  *)
(***************************************************************************)
EXTENDS BootServer, TLAPS

USE DEF bootVars, taskVars, flashVars, hist

-----------------------------------------------------------------------------
(* Types                                                                   *)

LEMMA SvcInitType == ServiceInit \in SvcType
BY FlashMapAssumption, BootServerAssumption DEF SvcType, ServiceInit, Sessions, Addr

LEMMA TypeOfInit == Init => TypeOK
<1> SUFFICES ASSUME Init PROVE TypeOK
  OBVIOUS
<1>1. flash \in [Cells -> Content] /\ ers \subseteq Blocks
  BY DEF Init, TasksInit, FlashInit, Content
<1>2. svc = ServiceInit
  BY DEF Init, TasksInit
<1>3. 0 \in Addr
  BY FlashMapAssumption DEF Addr
<1>4. /\ erase \in EraseType
      /\ csum \in [state : {0, 2}, result : 0 .. 2]
  BY <1>3 DEF Init, TasksInit, EraseType, EraseInit, CsumInit
<1>5. cipher \in [header : Headers, key : Headers, pos : Nat]
  BY BootServerAssumption DEF Init, TasksInit, CipherInit
<1> QED BY <1>1, <1>2, <1>4, <1>5, SvcInitType DEF Init, TasksInit, TypeOK, FlashTypeOK

LEMMA ArmedType ==
  ASSUME NEW e \in EraseType, NEW a \in Addr, NEW n \in Addr,
         NEW r \in 0 .. 2, NEW q \in 0 .. 1
  PROVE  [e EXCEPT !.result = r, !.address = a, !.size = n, !.req = q] \in EraseType
BY DEF EraseType

LEMMA KeyedType ==
  ASSUME NEW c \in [header : Headers, key : Headers, pos : Nat]
  PROVE  [c EXCEPT !.key = c.header, !.pos = 0] \in [header : Headers, key : Headers, pos : Nat]
OBVIOUS

LEMMA EraseValues ==
  /\ 0 \in 0 .. 1 /\ 1 \in 0 .. 1 /\ 0 \in 0 .. 2 /\ 1 \in 0 .. 2 /\ 2 \in 0 .. 2
  /\ \A f : EraseVerdict(f) \in 0 .. 2
BY DEF EraseVerdict

\* The steps of boot_routine.
LEMMA TypeOfEraseTask == TypeOK /\ EraseTask => TypeOK'
<1> SUFFICES ASSUME TypeOK, EraseTask PROVE TypeOK'
  OBVIOUS
<1>1. erase' \in EraseType
  <2>1. \/ \E n \in 0 .. 2 : erase' = [erase EXCEPT !.state = n]
        \/ \E n \in 0 .. 1 : erase' = [erase EXCEPT !.req = n]
        \/ \E n \in 0 .. 2 : erase' = [erase EXCEPT !.result = n]
        \/ \E f \in BOOLEAN : erase' = [erase EXCEPT !.failed = f]
        \/ erase' = erase
    BY Zenon, EraseValues DEF EraseTask, TakeErase, ClearRequest, BeginErase, EndErase,
       JudgeErase, PublishErase
  <2> QED BY <2>1 DEF TypeOK, EraseType
<1>2. flash' \in [Cells -> Content] /\ ers' \subseteq Blocks
  <2>1. CASE BeginErase
    BY <2>1 DEF TypeOK, FlashTypeOK, BeginErase, EraseBegins, EraseOfNothing,
                EraseNotEnabled, flash_get_block_select
  <2>2. CASE EndErase
    BY <2>2 DEF TypeOK, FlashTypeOK, EndErase, EraseDone, EraseFailed, CutErase, Content
  <2> QED BY <2>1, <2>2 DEF TypeOK, FlashTypeOK, EraseTask, TakeErase, ClearRequest,
                            JudgeErase, PublishErase
<1>3. /\ pc' \in {"poll", "taken", "begin", "wait", "judge", "publish"}
      /\ job' \in {"none", "pending", "ok", "failed", "aborted"}
  BY DEF TypeOK, EraseTask, TakeErase, ClearRequest, BeginErase, EndErase,
         JudgeErase, PublishErase
<1>4. TaskOnly
  BY DEF EraseTask, TakeErase, ClearRequest, BeginErase, EndErase, JudgeErase, PublishErase
<1> QED BY <1>1, <1>2, <1>3, <1>4 DEF TypeOK, FlashTypeOK, TaskOnly

LEMMA TypeOfResets == TypeOK /\ (Reset \/ PowerLoss \/ AppAsks \/ AppResets) => TypeOK'
<1> SUFFICES ASSUME TypeOK, Reset \/ PowerLoss \/ AppAsks \/ AppResets PROVE TypeOK'
  OBVIOUS
<1>1. ASSUME NEW asked, StartUp(asked) PROVE TypeOK'
  <2>1. flash' \in [Cells -> Content] /\ ers' \subseteq Blocks
    BY <1>1 DEF TypeOK, FlashTypeOK, StartUp, CutErase, Content
  <2>2. erase' \in EraseType /\ csum' \in [state : {0, 2}, result : 0 .. 2]
    BY <1>1, FlashMapAssumption DEF StartUp, EraseType, EraseInit, CsumInit, Addr
  <2>3. cipher' \in [header : Headers, key : Headers, pos : Nat]
    BY <1>1, BootServerAssumption DEF StartUp, CipherInit
  <2> QED BY <1>1, <2>1, <2>2, <2>3, SvcInitType DEF TypeOK, FlashTypeOK, StartUp
<1>2. CASE AppAsks
  BY <1>2 DEF TypeOK, FlashTypeOK, AppAsks
<1> QED BY <1>1, <1>2 DEF Reset, PowerLoss, AppResets

LEMMA TypeOfDispatch == TypeOK /\ (DispatchNext \/ SessionNext \/ Silence) => TypeOK'
<1> SUFFICES ASSUME TypeOK, DispatchNext \/ SessionNext \/ Silence PROVE TypeOK'
  OBVIOUS
<1> USE DEF Inert, SvcAlone
<1>1. CASE DispatchNext
  <2>1. svc' \in SvcType
    BY <1>1 DEF TypeOK, SvcType, DispatchNext, Refuse, Malformed, TesterPresent, RequestReset
  <2> QED BY <1>1, <2>1 DEF TypeOK, FlashTypeOK, DispatchNext, Refuse, Malformed,
                            TesterPresent, RequestReset
<1>2. ASSUME NEW n \in SessionArgs, SessionCtrl(n) PROVE TypeOK'
  <2>1. svc' \in SvcType
    BY <1>2, SvcInitType DEF TypeOK, SvcType, SessionCtrl, NewSession, Sessions
  <2> QED BY <1>2, <2>1 DEF TypeOK, FlashTypeOK, SessionCtrl
<1>3. CASE RequestSeed \/ SecurityOther \/ \E key \in Keys : SendKey(key)
  <2>1. svc' \in SvcType
    <3>1. \/ \E s \in Seeds : svc' = [svc EXCEPT !.seed = s]
          \/ svc' = svc
          \/ \E u \in SUBSET Sessions : svc' = [svc EXCEPT !.unlocked = u, !.seed = 0]
      <4>1. svc.unlocked \cup {svc.session} \in SUBSET Sessions
            /\ svc.unlocked \ {svc.session} \in SUBSET Sessions
        BY DEF TypeOK, SvcType
      <4> QED BY <1>3, <4>1, BootServerAssumption DEF RequestSeed, SecurityOther, SendKey
    <3>2. svc \in SvcType /\ 0 \in Seeds
      BY BootServerAssumption DEF TypeOK
    <3> QED BY <3>1, <3>2 DEF SvcType
  <2> QED BY <1>3, <2>1 DEF TypeOK, FlashTypeOK, RequestSeed, SecurityOther, SendKey
<1>4. CASE Silence
  BY <1>4, SvcInitType DEF TypeOK, FlashTypeOK, Silence
<1> QED BY <1>1, <1>2, <1>3, <1>4 DEF SessionNext

LEMMA TypeOfRoutine == TypeOK /\ (DataNext \/ RoutineNext) => TypeOK'
<1> SUFFICES ASSUME TypeOK, DataNext \/ RoutineNext PROVE TypeOK'
  OBVIOUS
<1> USE DEF Inert, SvcAlone
<1>1. CASE DataNext
  <2>1. cipher' \in [header : Headers, key : Headers, pos : Nat]
    BY <1>1 DEF TypeOK, DataNext, WriteHeader, WriteOther, ReadHeader, ReadOther
  <2> QED BY <1>1, <2>1 DEF TypeOK, FlashTypeOK, DataNext, WriteHeader, WriteOther,
                            ReadHeader, ReadOther
<1>2. ASSUME NEW r \in EraseRanges, EraseStart(r[1], r[2]) PROVE TypeOK'
  <2>1. r[1] \in Addr /\ r[2] \in Addr
    BY BootServerAssumption
  <2>2. erase' \in EraseType
    <3>1. erase' = erase \/ erase' = ArmErase(r[1], r[2])
      BY <1>2 DEF EraseStart
    <3>2. ArmErase(r[1], r[2]) \in EraseType
      <4>1. erase \in EraseType
        BY DEF TypeOK
      <4> QED BY <2>1, <4>1, ArmedType, EraseValues DEF ArmErase
    <3> QED BY <3>1, <3>2 DEF TypeOK
  <2>3. folded' \subseteq Addr \X Content /\ image' \subseteq Addr \X Content
    BY <1>2 DEF TypeOK, EraseStart, Unasked
  <2> QED BY <1>2, <2>2, <2>3 DEF TypeOK, FlashTypeOK, EraseStart
<1>3. CASE EraseResult
  <2>1. erase' \in EraseType
    BY <1>3 DEF TypeOK, EraseType, EraseResult
  <2> QED BY <1>3, <2>1 DEF TypeOK, FlashTypeOK, EraseResult
<1>4. ASSUME NEW sum, ChecksumStart(sum) PROVE TypeOK'
  <2>1. flash' \in [Cells -> Content]
    BY <1>4, BootServerAssumption
       DEF TypeOK, FlashTypeOK, ChecksumStart, flash_write_succeeds, flash_write_fails,
           WriteDone, WriteLost, WriteRefused, WriteFailed, Programmable, Content
  <2>2. csum' \in [state : {0, 2}, result : 0 .. 2] /\ image' \subseteq Addr \X Content
    BY <1>4 DEF TypeOK, ChecksumStart
  <2> QED BY <1>4, <2>1, <2>2 DEF TypeOK, FlashTypeOK, ChecksumStart
<1>5. CASE ChecksumResult \/ RoutineOther
  <2>1. csum' \in [state : {0, 2}, result : 0 .. 2]
    BY <1>5 DEF TypeOK, ChecksumResult, RoutineOther
  <2> QED BY <1>5, <2>1 DEF TypeOK, FlashTypeOK, ChecksumResult, RoutineOther
<1> QED BY <1>1, <1>2, <1>3, <1>4, <1>5 DEF RoutineNext

\* A unit that was taken: what is read back is a content, at an address.
LEMMA TypeOfTaken ==
  ASSUME TypeOK, flash' \in [Cells -> Content], NextAddr \in Addr,
         WithinBounds, NEW b, TakeUnit(b)
  PROVE  svc' \in SvcType /\ folded' \subseteq Addr \X Content
<1>1. PICK v \in CrcOver(b) :
        /\ svc' = [svc EXCEPT !.checksum = Append(@, v),
                              !.expected_xfer_block_sn = (@ + 1) % SnMod,
                              !.xfer_data_rcvd_cnt = @ + 1,
                              !.total_xfer_data_cnt = @ + 1]
        /\ folded' = IF job = "pending" /\ NextAddr \in Touched(erase.address, erase.size)
                     THEN folded ELSE folded \cup {<<NextAddr, v>>}
  BY DEF TakeUnit
<1>2. v \in Content
  BY DEF CrcOver, Read
<1>3. Append(svc.checksum, v) \in Seq(Content)
  BY <1>2 DEF TypeOK, SvcType
<1>4. (svc.expected_xfer_block_sn + 1) % SnMod \in 0 .. SnMod - 1
  <2>1. svc.expected_xfer_block_sn + 1 \in Nat /\ SnMod \in Nat \ {0}
    BY BootServerAssumption DEF TypeOK, SvcType
  <2> QED BY <2>1, SMT
<1>5. svc.xfer_data_rcvd_cnt + 1 \in Nat /\ svc.total_xfer_data_cnt + 1 \in 0 .. MaxTotal
  BY BootServerAssumption DEF TypeOK, SvcType, WithinBounds
<1>6. svc' \in SvcType
  BY <1>1, <1>3, <1>4, <1>5 DEF TypeOK, SvcType
<1> QED BY <1>1, <1>2, <1>6 DEF TypeOK

LEMMA TypeOfTransfer == TypeOK /\ TransferNext => TypeOK'
<1> SUFFICES ASSUME TypeOK, TransferNext PROVE TypeOK'
  OBVIOUS
<1> USE DEF Inert, SvcAlone
<1>1. ASSUME NEW r \in LoadRanges, NEW enc \in EncFlags, DownloadReq(r[1], r[2], enc)
      PROVE  TypeOK'
  <2>1. r[1] \in Addr /\ r[2] \in Addr /\ enc \in BOOLEAN
    BY BootServerAssumption
  <2>2. 1 % SnMod \in 0 .. SnMod - 1
    BY BootServerAssumption, SMT
  <2>3. svc' \in SvcType
    <3>1. \/ svc' = OpenTransfer(r[1], r[2], enc)
          \/ svc' = [svc EXCEPT !.flash_prog_state = 0]
      BY <1>1 DEF DownloadReq
    <3>2. OpenTransfer(r[1], r[2], enc) \in SvcType
      BY <2>1, <2>2 DEF TypeOK, SvcType, OpenTransfer
    <3>3. [svc EXCEPT !.flash_prog_state = 0] \in SvcType
      BY DEF TypeOK, SvcType
    <3> QED BY <3>1, <3>2, <3>3
  <2>4. cipher' \in [header : Headers, key : Headers, pos : Nat]
    <3>1. cipher' = cipher \/ cipher' = [cipher EXCEPT !.key = cipher.header, !.pos = 0]
      BY <1>1 DEF DownloadReq
    <3>2. cipher \in [header : Headers, key : Headers, pos : Nat]
      BY DEF TypeOK
    <3> QED BY <3>1, <3>2, KeyedType
  <2> QED BY <1>1, <2>3, <2>4 DEF TypeOK, FlashTypeOK, DownloadReq
<1>2. ASSUME NEW sn, NEW b \in Units, XferData(sn, b) PROVE TypeOK'
  <2>1. Decrypt(b) \in Content
    BY BootServerAssumption DEF Units, Decrypt, Content
  <2>2. flash' \in [Cells -> Content]
    BY <1>2, <2>1
       DEF TypeOK, FlashTypeOK, XferData, flash_write_succeeds, flash_write_fails,
           WriteDone, WriteLost, WriteRefused, WriteFailed, Programmable, Content
  <2>3. NextAddr \in Addr
    <3> DEFINE x == svc.download_req_addr + svc.xfer_data_rcvd_cnt
    <3>1. x \in Nat /\ AddrMod \in Nat \ {0}
      BY FlashMapAssumption DEF TypeOK, SvcType, Addr
    <3> HIDE DEF x
    <3>2. x % AddrMod \in 0 .. AddrMod - 1
      BY <3>1, SMT
    <3> QED BY <3>2 DEF NextAddr, Plus, Addr, x
  <2>4. svc' \in SvcType /\ folded' \subseteq Addr \X Content
    BY <1>2, <2>2, <2>3, TypeOfTaken DEF TypeOK, XferData
  <2>5. cipher' \in [header : Headers, key : Headers, pos : Nat]
    BY <1>2 DEF TypeOK, XferData
  <2> QED BY <1>2, <2>2, <2>4, <2>5 DEF TypeOK, FlashTypeOK, XferData
<1>3. CASE DownloadOther \/ ExitXfer
  <2>1. svc' \in SvcType
    BY <1>3 DEF TypeOK, SvcType, DownloadOther, ExitXfer
  <2> QED BY <1>3, <2>1 DEF TypeOK, FlashTypeOK, DownloadOther, ExitXfer
<1> QED BY <1>1, <1>2, <1>3 DEF TransferNext

(***************************************************************************)
(* Every variable keeps its type: addresses stay in the address space,     *)
(* the block number in eight bits, the flash holds one content per cell.   *)
(***************************************************************************)
THEOREM TypeCorrect == Spec => []TypeOK
<1>1. TypeOK /\ [Next]_vars => TypeOK'
  <2>1. TypeOK /\ UNCHANGED vars => TypeOK'
    BY DEF vars, TypeOK, FlashTypeOK
  <2> QED BY <2>1, TypeOfDispatch, TypeOfRoutine, TypeOfTransfer, TypeOfEraseTask, TypeOfResets
          DEF Next, Request
<1> QED BY <1>1, TypeOfInit, PTL DEF Spec

-----------------------------------------------------------------------------
(* What a step can be                                                      *)

(***************************************************************************)
(* All but six kinds of steps leave the flash, the erase routine and the   *)
(* bootable image alone, and forget what was read back or keep it.         *)
(***************************************************************************)
QuietStep == /\ UNCHANGED <<flashVars, taskVars, image>>
             /\ folded' = folded \/ folded' = {}

LEMMA StepKinds ==
  ASSUME [Next]_vars
  PROVE  \/ QuietStep
         \/ \E r \in EraseRanges : EraseStart(r[1], r[2])
         \/ EraseResult
         \/ \E sum : ChecksumStart(sum)
         \/ \E sn, b : b \in Units /\ XferData(sn, b)
         \/ EraseTask
         \/ \E asked : StartUp(asked)
<1> USE DEF Inert, SvcAlone
<1>1. CASE DispatchNext
  BY <1>1 DEF QuietStep, DispatchNext, Refuse, Malformed, TesterPresent, RequestReset
<1>2. CASE SessionNext
  BY <1>2 DEF QuietStep, SessionNext, SessionCtrl, RequestSeed, SecurityOther, SendKey
<1>3. CASE DataNext
  BY <1>3 DEF QuietStep, DataNext, WriteHeader, WriteOther, ReadHeader, ReadOther
<1>4. CASE RoutineNext
  BY <1>4 DEF QuietStep, RoutineNext, ChecksumResult, RoutineOther
<1>5. CASE TransferNext
  BY <1>5 DEF QuietStep, TransferNext, DownloadReq, DownloadOther, ExitXfer
<1>6. CASE Silence
  BY <1>6 DEF QuietStep, Silence
<1>7. CASE Reset \/ PowerLoss \/ AppResets
  BY <1>7 DEF Reset, PowerLoss, AppResets
<1>8. CASE AppAsks
  BY <1>8 DEF QuietStep, AppAsks
<1>9. CASE UNCHANGED vars
  BY <1>9 DEF QuietStep, vars
<1> QED BY <1>1, <1>2, <1>3, <1>4, <1>5, <1>6, <1>7, <1>8, <1>9 DEF Next, Request

-----------------------------------------------------------------------------
(* The hand-over between the two tasks                                     *)

(***************************************************************************)
(* Inductive: what state, req, result and error_code say at each of the    *)
(* stores of boot_routine, and which blocks are under erase.               *)
(***************************************************************************)
Handshake ==
  /\ erase.state = 1 <=> pc # "poll"
  /\ pc = "taken" => erase.req = 1
  /\ pc \in {"begin", "wait", "judge", "publish"} => erase.req = 0
  /\ job = "pending" <=> erase.req = 1 \/ pc \in {"begin", "wait"}
  /\ job = "pending" => check_flash_address_valid(erase.address, erase.size)
  /\ pc \in {"judge", "publish"} => job = IF erase.failed THEN "failed" ELSE "ok"
  /\ pc = "publish" => erase.result = EraseVerdict(erase.failed)
  /\ erase.req = 1 => erase.result = 0
  /\ erase.state = 2 /\ erase.req = 0 =>
       \/ erase.result = 1 /\ job = "ok"
       \/ erase.result = 2 /\ job = "failed"
  /\ ers = IF pc = "wait" THEN flash_get_block_select(erase.address, erase.size) ELSE {}

LEMMA HandshakeInit == Init => Handshake
BY DEF Init, TasksInit, FlashInit, EraseInit, Handshake

LEMMA ArmedFields ==
  ASSUME erase \in EraseType, NEW a, NEW n
  PROVE  /\ ArmErase(a, n).state = erase.state
         /\ ArmErase(a, n).req = 1 /\ ArmErase(a, n).result = 0
         /\ ArmErase(a, n).address = a /\ ArmErase(a, n).size = n
BY DEF ArmErase, EraseType

LEMMA HandshakeStep ==
  ASSUME TypeOK, Handshake, [Next]_vars
  PROVE  Handshake'
<1> USE DEF TypeOK, EraseType, FlashTypeOK
<1>1. CASE QuietStep
  BY <1>1 DEF QuietStep, Handshake
<1>2. ASSUME NEW r \in EraseRanges, EraseStart(r[1], r[2]) PROVE Handshake'
  <2>1. CASE erase' = erase /\ job' = job
    BY <1>2, <2>1 DEF EraseStart, Handshake
  <2>2. CASE /\ check_flash_address_valid(r[1], r[2]) /\ ~EraseBusy
             /\ erase' = ArmErase(r[1], r[2]) /\ job' = "pending"
    <3>1. pc' = pc /\ ers' = ers
      BY <1>2 DEF EraseStart
    <3>2. pc = "poll" /\ ers = {}
      BY <2>2 DEF EraseBusy, Handshake
    <3>3. /\ erase'.state = erase.state /\ erase'.req = 1 /\ erase'.result = 0
          /\ erase'.address = r[1] /\ erase'.size = r[2]
      BY <2>2, ArmedFields
    <3> QED BY <2>2, <3>1, <3>2, <3>3 DEF EraseBusy, Handshake
  <2> QED BY <1>2, <2>1, <2>2 DEF EraseStart
<1>3. CASE EraseResult
  BY <1>3 DEF EraseResult, Handshake
<1>4. ASSUME NEW sum, ChecksumStart(sum) PROVE Handshake'
  BY <1>4 DEF ChecksumStart, Handshake
<1>5. ASSUME NEW sn, NEW b, XferData(sn, b) PROVE Handshake'
  BY <1>5 DEF XferData, Handshake
<1>6. CASE EraseTask
  <2>1. CASE TakeErase
    BY <2>1 DEF TakeErase, Handshake
  <2>2. CASE ClearRequest
    BY <2>2 DEF ClearRequest, Handshake
  <2>3. CASE BeginErase
    BY <2>3 DEF BeginErase, EraseBegins, EraseOfNothing, EraseNotEnabled, Handshake
  <2>4. CASE EndErase
    BY <2>4 DEF EndErase, EraseDone, EraseFailed, CutErase, Handshake
  <2>5. CASE JudgeErase
    BY <2>5 DEF JudgeErase, Handshake
  <2>6. CASE PublishErase
    BY <2>6 DEF PublishErase, EraseVerdict, Handshake
  <2> QED BY <1>6, <2>1, <2>2, <2>3, <2>4, <2>5, <2>6 DEF EraseTask
<1>7. ASSUME NEW asked, StartUp(asked) PROVE Handshake'
  BY <1>7 DEF StartUp, CutErase, EraseInit, Handshake
<1> QED BY <1>1, <1>2, <1>3, <1>4, <1>5, <1>6, <1>7, StepKinds

LEMMA HandshakeHolds == Spec => []Handshake
BY TypeCorrect, HandshakeInit, HandshakeStep, PTL DEF Spec

(***************************************************************************)
(* The result that a client reads in a completed state is that of the last *)
(* accepted erase, although nothing locks the fields the tasks share.      *)
(***************************************************************************)
THEOREM EraseResultIsHonest == Spec => []EraseResultHonest
<1>1. TypeOK /\ Handshake => EraseResultHonest
  BY DEF TypeOK, EraseType, Handshake, EraseResultHonest
<1> QED BY <1>1, TypeCorrect, HandshakeHolds, PTL

(***************************************************************************)
(* A client never consumes a completed erase without learning its result.  *)
(***************************************************************************)
THEOREM EraseOutcomeIsReady == Spec => []EraseOutcomeReady
<1>1. Handshake => EraseOutcomeReady
  BY DEF Handshake, EraseOutcomeReady
<1> QED BY <1>1, HandshakeHolds, PTL

(***************************************************************************)
(* The range of an accepted erase stays as it is until the erase is over.  *)
(***************************************************************************)
THEOREM EraseRangeIsStable == Spec => EraseRangeStable
<1>1. ASSUME TypeOK, Handshake, [Next]_vars, job = "pending", job' = "pending"
      PROVE  erase'.address = erase.address /\ erase'.size = erase.size
  <2> USE <1>1 DEF TypeOK, EraseType
  <2>1. EraseBusy
    BY DEF Handshake, EraseBusy
  <2>2. ASSUME NEW r \in EraseRanges, EraseStart(r[1], r[2]) PROVE erase' = erase
    BY <2>1, <2>2 DEF EraseStart
  <2>3. CASE QuietStep \/ (\E sum : ChecksumStart(sum))
             \/ (\E sn, b : b \in Units /\ XferData(sn, b))
    BY <2>3 DEF QuietStep, ChecksumStart, XferData
  <2>4. CASE EraseResult \/ EraseTask
    BY <2>4 DEF EraseResult, EraseTask, TakeErase, ClearRequest, BeginErase, EndErase,
                JudgeErase, PublishErase
  <2>5. ASSUME NEW asked, StartUp(asked) PROVE FALSE
    BY <2>5 DEF StartUp
  <2> QED BY <2>2, <2>3, <2>4, <2>5, StepKinds
<1> QED BY <1>1, TypeCorrect, HandshakeHolds, PTL DEF Spec, EraseRangeStable

-----------------------------------------------------------------------------
(* The flash                                                               *)

\* The blocks under erase are those of a pending request.
LEMMA UnderEraseIsTouched ==
  ASSUME Handshake, ers # {}
  PROVE  /\ pc = "wait" /\ job = "pending"
         /\ check_flash_address_valid(erase.address, erase.size)
         /\ UnderErase = Touched(erase.address, erase.size)
BY DEF Handshake, UnderErase, Touched

LEMMA NothingUnderErase == ers = {} => UnderErase = {}
BY DEF UnderErase

(***************************************************************************)
(* What a step can do to one cell: program it when it is blank and no      *)
(* erase is running, or change it in any way while it is under erase.      *)
(***************************************************************************)
LEMMA CellSteps ==
  ASSUME TypeOK, Handshake, [Next]_vars, NEW c \in Cells, flash'[c] # flash[c]
  PROVE  \/ c \in UnderErase /\ flash'[c] \in {Erased, Damaged}
         \/ /\ flash[c] = Erased /\ ers = {} /\ c = FlagAddr
            /\ \E sum : ChecksumStart(sum)
         \/ /\ flash[c] = Erased /\ ers = {} /\ c = NextAddr
            /\ flash'[c] \in {Damaged, Scrambled} \cup Data
            /\ \E sn, b : b \in Units /\ XferData(sn, b) /\ TransferOpen(sn)
<1> USE DEF TypeOK, FlashTypeOK
<1>1. CASE QuietStep \/ EraseResult \/ (\E r \in EraseRanges : EraseStart(r[1], r[2]))
  BY <1>1 DEF QuietStep, EraseResult, EraseStart
<1>2. ASSUME NEW sum, ChecksumStart(sum)
      PROVE  flash[c] = Erased /\ ers = {} /\ c = FlagAddr
  BY <1>2 DEF ChecksumStart, flash_write_succeeds, flash_write_fails, WriteDone, WriteLost,
              WriteRefused, WriteFailed, Programmable
<1>3. ASSUME NEW sn, NEW b \in Units, XferData(sn, b)
      PROVE  /\ flash[c] = Erased /\ ers = {} /\ c = NextAddr
             /\ flash'[c] \in {Damaged, Scrambled} \cup Data
             /\ TransferOpen(sn)
  <2>1. Decrypt(b) \in {Scrambled} \cup Data
    BY DEF Units, Decrypt
  <2> QED BY <1>3, <2>1 DEF XferData, flash_write_succeeds, flash_write_fails, WriteDone,
             WriteLost, WriteRefused, WriteFailed, Programmable
<1>4. CASE EraseTask
  <2>1. pc = "wait" /\ (EraseDone \/ EraseFailed)
    BY <1>4 DEF EraseTask, TakeErase, ClearRequest, BeginErase, EndErase, JudgeErase,
                PublishErase, EraseBegins, EraseOfNothing, EraseNotEnabled
  <2> QED BY <2>1 DEF EraseDone, EraseFailed, CutErase
<1>5. ASSUME NEW asked, StartUp(asked)
      PROVE  c \in UnderErase /\ flash'[c] \in {Erased, Damaged}
  BY <1>5 DEF StartUp, CutErase
<1> QED BY <1>1, <1>2, <1>3, <1>4, <1>5, StepKinds

(***************************************************************************)
(* Inductive: what was read back, and the image that was accepted, is in   *)
(* the flash, and no erase that is pending touches it.                     *)
(***************************************************************************)
Kept(pairs) ==
  \A c \in pairs : /\ c[1] \in Cells /\ c[2] # Erased => flash[c[1]] = c[2]
                   /\ job = "pending" => c[1] \notin Touched(erase.address, erase.size)

KeptInv == Kept(folded) /\ Kept(image)

LEMMA KeptInit == Init => KeptInv
BY DEF Init, TasksInit, KeptInv, Kept

\* Pairs that were kept stay in the flash, whatever the step.
LEMMA KeptInFlash ==
  ASSUME TypeOK, Handshake, [Next]_vars, NEW pairs, Kept(pairs), NEW c \in pairs,
         c[1] \in Cells, c[2] # Erased
  PROVE  flash'[c[1]] = c[2]
<1>1. SUFFICES ASSUME flash'[c[1]] # flash[c[1]] PROVE FALSE
  BY DEF Kept
<1>2. c[1] \in Cells /\ flash[c[1]] # Erased
  BY DEF Kept
<1>3. c[1] \in UnderErase
  BY <1>1, <1>2, CellSteps
<1>4. ers # {}
  BY <1>3, NothingUnderErase
<1> QED BY <1>3, <1>4, UnderEraseIsTouched DEF Kept

LEMMA KeptStep ==
  ASSUME TypeOK, Handshake, KeptInv, [Next]_vars
  PROVE  KeptInv'
<1>1. ASSUME NEW pairs, Kept(pairs), job' = "pending" => job = "pending",
             job' = "pending" => erase'.address = erase.address /\ erase'.size = erase.size
      PROVE  \A c \in pairs : /\ c[1] \in Cells /\ c[2] # Erased => flash'[c[1]] = c[2]
                              /\ job' = "pending" => c[1] \notin Touched(erase'.address, erase'.size)
  BY <1>1, KeptInFlash DEF Kept
<1>2. CASE QuietStep
  BY <1>1, <1>2 DEF QuietStep, KeptInv, Kept
<1>3. ASSUME NEW r \in EraseRanges, EraseStart(r[1], r[2]) PROVE KeptInv'
  <2>1. CASE erase' = erase /\ job' = job /\ folded' = folded /\ image' = image
    BY <1>1, <2>1 DEF KeptInv, Kept
  <2>2. CASE /\ erase' = ArmErase(r[1], r[2]) /\ job' = "pending"
             /\ folded' = Unasked(folded, r[1], r[2]) /\ image' = Unasked(image, r[1], r[2])
    <3>1. flash' = flash
      BY <1>3 DEF EraseStart
    <3>2. erase'.address = r[1] /\ erase'.size = r[2]
      BY <2>2, ArmedFields DEF TypeOK
    <3> QED BY <2>2, <3>1, <3>2 DEF KeptInv, Kept, Unasked
  <2> QED BY <1>3, <2>1, <2>2 DEF EraseStart
<1>4. CASE EraseResult
  <2>1. erase'.address = erase.address /\ erase'.size = erase.size
    BY <1>4 DEF EraseResult, TypeOK, EraseType
  <2> QED BY <1>1, <1>4, <2>1 DEF EraseResult, KeptInv, Kept
<1>5. ASSUME NEW sum, ChecksumStart(sum) PROVE KeptInv'
  <2>1. (image' = image \/ image' = folded) /\ folded' = folded /\ erase' = erase /\ job' = job
    BY <1>5 DEF ChecksumStart
  <2> QED BY <1>1, <2>1 DEF KeptInv, Kept
<1>6. ASSUME NEW sn, NEW b, b \in Units, XferData(sn, b) PROVE KeptInv'
  <2>1. image' = image /\ erase' = erase /\ job' = job /\ ers' = ers
    BY <1>6 DEF XferData
  <2>2. CASE folded' = folded
    BY <1>1, <2>1, <2>2 DEF KeptInv, Kept
  <2>3. CASE TakeUnit(b) /\ flash_write_succeeds(NextAddr, Decrypt(b)) /\ folded' # folded
    <3>1. PICK v \in Read(flash', NextAddr) : folded' = folded \cup {<<NextAddr, v>>}
      BY <2>3 DEF TakeUnit, CrcOver
    <3>2. job = "pending" => NextAddr \notin Touched(erase.address, erase.size)
      BY <2>3 DEF TakeUnit
    <3>3. NextAddr \notin UnderErase
      BY <3>2, UnderEraseIsTouched, NothingUnderErase
    <3>4. NextAddr \in Cells => v = flash'[NextAddr]
      BY <3>1, <3>3 DEF Read
    <3> QED BY <1>1, <2>1, <3>1, <3>2, <3>4 DEF KeptInv, Kept
  <2> QED BY <1>6, <2>2, <2>3 DEF XferData
<1>7. CASE EraseTask
  <2>1. /\ folded' = folded /\ image' = image
        /\ erase'.address = erase.address /\ erase'.size = erase.size
        /\ job' = "pending" => job = "pending"
    BY <1>7 DEF EraseTask, TakeErase, ClearRequest, BeginErase, EndErase, JudgeErase,
                PublishErase, TaskOnly, TypeOK, EraseType
  <2> QED BY <1>1, <2>1 DEF KeptInv, Kept
<1>8. ASSUME NEW asked, StartUp(asked) PROVE KeptInv'
  <2>1. folded' = {} /\ image' = image /\ job' # "pending"
    BY <1>8 DEF StartUp
  <2> QED BY <1>1, <2>1 DEF KeptInv, Kept
<1> QED BY <1>2, <1>3, <1>4, <1>5, <1>6, <1>7, <1>8, StepKinds

(***************************************************************************)
(* The image a checksum made bootable is the one in the flash, unit by     *)
(* unit, until a client asks for an erase of it.                           *)
(***************************************************************************)
THEOREM ImageIsSound == Spec => []ImageSound
<1>1. Spec => []KeptInv
  BY TypeCorrect, HandshakeHolds, KeptInit, KeptStep, PTL DEF Spec
<1>2. KeptInv => ImageSound
  BY DEF KeptInv, Kept, ImageSound
<1> QED BY <1>1, <1>2, PTL

-----------------------------------------------------------------------------
(* The service state                                                       *)

\* The steps that change svc, by what they make of it.
LEMMA SvcSteps ==
  ASSUME [Next]_vars, svc' # svc
  PROVE  \/ svc' = ServiceInit
         \/ \E n \in 1 .. 8 : svc' = NewSession(n)
         \/ svc' = [svc EXCEPT !.reset_req = TRUE]
         \/ \E s \in Seeds : svc' = [svc EXCEPT !.seed = s]
         \/ svc' = [svc EXCEPT !.unlocked = @ \cup {svc.session}, !.seed = 0]
         \/ svc' = [svc EXCEPT !.unlocked = @ \ {svc.session}, !.seed = 0]
         \/ \E r \in LoadRanges, enc \in EncFlags :
              check_flash_address_valid(r[1], r[2]) /\ svc' = OpenTransfer(r[1], r[2], enc)
         \/ svc' = [svc EXCEPT !.flash_prog_state = 0]
         \/ \E sn, b : TransferOpen(sn) /\ TakeUnit(b)
<1> USE DEF Inert, SvcAlone
<1>1. CASE DispatchNext
  BY <1>1 DEF DispatchNext, Refuse, Malformed, TesterPresent, RequestReset
<1>2. CASE SessionNext
  <2>1. 0 \in Seeds
    BY BootServerAssumption
  <2> QED BY <1>2, <2>1 DEF SessionNext, SessionCtrl, RequestSeed, SecurityOther, SendKey
<1>3. CASE DataNext
  BY <1>3 DEF DataNext, WriteHeader, WriteOther, ReadHeader, ReadOther
<1>4. CASE RoutineNext
  BY <1>4 DEF RoutineNext, EraseStart, ChecksumStart, EraseResult, ChecksumResult, RoutineOther
<1>5. CASE TransferNext
  BY <1>5 DEF TransferNext, DownloadReq, XferData, DownloadOther, ExitXfer
<1>6. CASE Silence
  BY <1>6 DEF Silence
<1>7. CASE EraseTask
  BY <1>7 DEF EraseTask, TakeErase, ClearRequest, BeginErase, EndErase, JudgeErase,
              PublishErase, TaskOnly
<1>8. CASE Reset \/ PowerLoss \/ AppResets
  BY <1>8 DEF Reset, PowerLoss, AppResets, StartUp
<1>9. CASE AppAsks \/ UNCHANGED vars
  BY <1>9 DEF AppAsks, vars
<1> QED BY <1>1, <1>2, <1>3, <1>4, <1>5, <1>6, <1>7, <1>8, <1>9 DEF Next, Request

(***************************************************************************)
(* No session other than the current one is ever unlocked.                 *)
(***************************************************************************)
THEOREM OnlyHereUnlocked == Spec => []UnlockedOnlyHere
<1>1. Init => UnlockedOnlyHere
  BY DEF Init, TasksInit, ServiceInit, UnlockedOnlyHere
<1>2. ASSUME TypeOK, UnlockedOnlyHere, [Next]_vars PROVE UnlockedOnlyHere'
  <2> USE <1>2 DEF UnlockedOnlyHere
  <2>0. svc \in SvcType
    BY DEF TypeOK
  <2>1. CASE svc' = ServiceInit \/ \E n \in 1 .. 8 : svc' = NewSession(n)
    BY <2>1 DEF ServiceInit, NewSession
  <2>2. CASE \/ svc' = [svc EXCEPT !.unlocked = @ \cup {svc.session}, !.seed = 0]
             \/ svc' = [svc EXCEPT !.unlocked = @ \ {svc.session}, !.seed = 0]
    <3>1. svc'.session = svc.session
      BY <2>0, <2>2 DEF SvcType
    <3>2. svc'.unlocked \in {svc.unlocked \cup {svc.session}, svc.unlocked \ {svc.session}}
      BY <2>0, <2>2 DEF SvcType
    <3> QED BY <3>1, <3>2
  <2>3. CASE svc'.session = svc.session /\ svc'.unlocked = svc.unlocked
    BY <2>3
  <2> QED BY <2>0, <2>1, <2>2, <2>3, SvcSteps DEF SvcType, OpenTransfer, TakeUnit
<1> QED BY <1>1, <1>2, TypeCorrect, PTL DEF Spec

\* The next number of a wrapping counter.
LEMMA ModSucc ==
  ASSUME NEW m \in Nat \ {0}, NEW x \in Nat
  PROVE  ((x % m) + 1) % m = (x + 1) % m
<1> DEFINE q == x \div m
           r == x % m
<1>1. q \in Nat /\ r \in 0 .. m - 1 /\ x = m * q + r
  BY SMT
<1>2. \A p \in Nat, t \in 0 .. m - 1 : (m * p + t) % m = t
  BY SMT
<1> HIDE DEF q, r
<1>3. CASE r + 1 < m
  <2>1. r + 1 \in 0 .. m - 1 /\ x + 1 = m * q + (r + 1)
    BY <1>1, <1>3
  <2>2. (r + 1) % m = r + 1
    BY <2>1, SMT
  <2>3. (x + 1) % m = r + 1
    BY <1>1, <1>2, <2>1
  <2> QED BY <2>2, <2>3 DEF r
<1>4. CASE r + 1 = m
  <2>1. x + 1 = m * (q + 1) + 0
    BY <1>1, <1>4
  <2>2. (x + 1) % m = 0
    BY <1>1, <1>2, <2>1
  <2>3. m % m = 0
    BY SMT
  <2> QED BY <1>4, <2>2, <2>3 DEF r
<1> QED BY <1>1, <1>3, <1>4

(***************************************************************************)
(* An open transfer has a checked range, stays inside it, and expects the  *)
(* block number that follows the blocks it took.                           *)
(***************************************************************************)
THEOREM TransferStaysInWindow == Spec => []TransferWindow
<1>1. Init => TransferWindow
  BY DEF Init, TasksInit, ServiceInit, TransferWindow
<1>2. ASSUME TypeOK, TransferWindow, [Next]_vars PROVE TransferWindow'
  <2> USE <1>2 DEF TransferWindow
  <2>1. svc \in SvcType /\ SnMod \in Nat \ {0}
    BY BootServerAssumption DEF TypeOK
  <2>2. CASE svc' = ServiceInit \/ \E n \in 1 .. 8 : svc' = NewSession(n)
    BY <2>2 DEF ServiceInit, NewSession
  <2>3. ASSUME NEW r \in LoadRanges, NEW enc \in EncFlags,
               check_flash_address_valid(r[1], r[2]), svc' = OpenTransfer(r[1], r[2], enc)
        PROVE  TransferWindow'
    <3>1. r[2] \in Addr
      BY BootServerAssumption
    <3> QED BY <2>1, <2>3, <3>1 DEF OpenTransfer, SvcType, Addr
  <2>4. ASSUME NEW sn, NEW b, TransferOpen(sn), TakeUnit(b) PROVE TransferWindow'
    <3>1. /\ svc'.download_req_addr = svc.download_req_addr
          /\ svc'.download_req_size = svc.download_req_size
          /\ svc'.xfer_data_rcvd_cnt = svc.xfer_data_rcvd_cnt + 1
          /\ svc'.expected_xfer_block_sn = (svc.expected_xfer_block_sn + 1) % SnMod
      BY <2>1, <2>4 DEF TakeUnit, SvcType
    <3>2. svc.xfer_data_rcvd_cnt \in Nat
      BY <2>1 DEF SvcType
    <3>3. (((svc.xfer_data_rcvd_cnt + 1) % SnMod) + 1) % SnMod
             = (svc.xfer_data_rcvd_cnt + 1 + 1) % SnMod
      BY <2>1, <3>2, ModSucc
    <3> QED BY <2>1, <2>4, <3>1, <3>2, <3>3 DEF TransferOpen
  <2>5. CASE svc' = [svc EXCEPT !.flash_prog_state = 0]
    BY <2>1, <2>5 DEF SvcType
  <2>6. CASE /\ svc'.flash_prog_state = svc.flash_prog_state
             /\ svc'.download_req_addr = svc.download_req_addr
             /\ svc'.download_req_size = svc.download_req_size
             /\ svc'.xfer_data_rcvd_cnt = svc.xfer_data_rcvd_cnt
             /\ svc'.expected_xfer_block_sn = svc.expected_xfer_block_sn
    BY <2>6
  <2> QED BY <2>1, <2>2, <2>3, <2>4, <2>5, <2>6, SvcSteps DEF SvcType
<1> QED BY <1>1, <1>2, TypeCorrect, PTL DEF Spec

-----------------------------------------------------------------------------
(* The flash                                                               *)

(***************************************************************************)
(* When no accepted range reaches the bootloader's cells, as DeviceMap's   *)
(* theorem DeviceOutOfReach shows of the device's tables, nothing ever     *)
(* changes them.                                                           *)
(***************************************************************************)
THEOREM BootCodeIsIntact ==
  ASSUME OutOfReach(BootCells)
  PROVE  Spec => []BootCodeIntact
<1>1. Init => BootCodeIntact
  BY FlashDrvAssumption DEF Init, TasksInit, FlashInit, BootCodeIntact
<1>2. ASSUME TypeOK, Handshake, TransferWindow, BootCodeIntact, [Next]_vars
      PROVE  BootCodeIntact'
  <2>1. SUFFICES ASSUME NEW c \in BootCells, flash'[c] # flash[c] PROVE FALSE
    BY <1>2 DEF BootCodeIntact
  <2>2. c \in Cells
    BY FlashDrvAssumption
  <2>3. CASE c \in UnderErase
    <3>1. /\ check_flash_address_valid(erase.address, erase.size)
          /\ c \in Touched(erase.address, erase.size)
      BY <1>2, <2>3, UnderEraseIsTouched, NothingUnderErase
    <3>2. erase.address \in Addr /\ erase.size \in Addr
      BY <1>2 DEF TypeOK, EraseType
    <3> QED BY <3>1, <3>2 DEF OutOfReach
  <2>4. CASE c = FlagAddr
    BY <2>4, BootServerAssumption
  <2>5. ASSUME NEW sn, TransferOpen(sn), c = NextAddr PROVE FALSE
    <3>1. svc \in SvcType
      BY <1>2 DEF TypeOK
    <3>2. /\ svc.download_req_addr \in Addr /\ svc.download_req_size \in Addr
          /\ svc.xfer_data_rcvd_cnt \in 0 .. svc.download_req_size - 1
      BY <2>5, <3>1 DEF SvcType, TransferOpen, Addr
    <3>3. check_flash_address_valid(svc.download_req_addr, svc.download_req_size)
      BY <1>2, <2>5 DEF TransferWindow, TransferOpen
    <3> QED BY <2>5, <3>2, <3>3 DEF NextAddr, OutOfReach
  <2> QED BY <1>2, <2>2, <2>3, <2>4, <2>5, CellSteps, <2>1
<1> QED BY <1>1, <1>2, TypeCorrect, HandshakeHolds, TransferStaysInWindow, PTL DEF Spec

(***************************************************************************)
(* The application flag appears in one way only: a checksum that matches   *)
(* in an unlocked session with something transferred, reported as such.    *)
(***************************************************************************)
THEOREM FlagComesFromChecksum == Spec => FlagOnlyByChecksum
<1>1. ASSUME TypeOK, Handshake, [Next]_vars, ~AppFlagValid, AppFlagValid'
      PROVE  /\ mode = "boot" /\ svc.session \in svc.unlocked
             /\ svc.total_xfer_data_cnt # 0
             /\ csum' = [state |-> 2, result |-> 1]
  <2>1. FlagAddr \in Cells /\ flash'[FlagAddr] = AppFlag /\ flash[FlagAddr] # AppFlag
    BY <1>1, BootServerAssumption DEF AppFlagValid
  <2>2. AppFlag \notin Data \cup {Scrambled, Erased, Damaged}
    BY BootServerAssumption
  <2>3. PICK sum : ChecksumStart(sum)
    BY <1>1, <2>1, <2>2, CellSteps
  <2>4. mode = "boot" /\ svc.session \in svc.unlocked
    BY <2>3 DEF ChecksumStart, Served, Receiving, Unlocked, Service
  <2>5. CASE csum' = [state |-> 2, result |-> 1] /\ Transferred
    BY <2>4, <2>5 DEF Transferred
  <2>6. CASE flash' = flash
    BY <2>1, <2>6
  <2>7. CASE flash_write_fails(FlagAddr)
    BY <1>1, <2>1, <2>2, <2>7 DEF flash_write_fails, WriteRefused, WriteFailed, TypeOK, FlashTypeOK
  <2> QED BY <2>3, <2>5, <2>6, <2>7 DEF ChecksumStart
<1> QED BY <1>1, TypeCorrect, HandshakeHolds, PTL DEF Spec, FlagOnlyByChecksum
=============================================================================
