----------------------------- MODULE BootSystem -----------------------------
(***************************************************************************)
(* An update from end to end: the programming tool (ProgHost), the network *)
(* and the device (BootServer).  Datagrams are delivered in order, except  *)
(* that one may be lost, or copied, the copy arriving at any later time,   *)
(* ahead of whatever is under way then.  The device may lose power, and    *)
(* the user may stop the tool and start it again.                          *)
(***************************************************************************)
EXTENDS BootServer

CONSTANTS
  File, Encrypted, FileHeader,  \* see ProgHost
  OldImage,    \* what an application installed before holds, by address
  MaxLosses,   \* bound: datagrams lost
  MaxCopies,   \* bound: datagrams copied
  MaxRuns      \* bound: starts of the tool

ASSUME BootSystemAssumption ==
  /\ Listening
  /\ Encrypted \in BOOLEAN /\ FileHeader \in Headers
  /\ \A a \in DOMAIN OldImage : OldImage[a] \in Content
  /\ MaxLosses \in Nat /\ MaxCopies \in Nat /\ MaxRuns \in Nat \ {0}

(***************************************************************************)
(* The segments that vci_prog sends: none is empty, and all lie in the     *)
(* application's flash, behind the flag.  That none runs over the end of   *)
(* the address space, which the 32-bit sum hides from vci_prog, and none   *)
(* gives a unit another value than one before it, is what a linker's       *)
(* S-record file keeps and the reader does not check.                      *)
(***************************************************************************)
ASSUME FileAssumption ==
  /\ File # <<>> /\ File \in Seq([addr : Addr, data : Seq(Data) \ {<<>>}])
  /\ \A i \in DOMAIN File : \A k \in DOMAIN File[i].data :
       File[i].addr + k - 1 \in Cells \ {FlagAddr}
  /\ \A i, j \in DOMAIN File : \A k \in DOMAIN File[i].data, l \in DOMAIN File[j].data :
       File[i].addr + k = File[j].addr + l => File[i].data[k] = File[j].data[l]

VARIABLES
  host,    \* the tool
  rx,      \* requests on their way
  late,    \* copies under way: <<"request", m>> or <<"reply", r>>
  losses,  \* datagrams lost so far
  copies,  \* datagrams copied so far
  runs,    \* starts of the tool so far
  unmarked \* history: the file is in the flash and its checksum was answered
           \* with success, but the controller did not take the flag

INSTANCE ProgHost

netVars == <<rx, late, losses, copies>>
sysVars == <<vars, netVars, host, runs, unmarked>>

\* The application that an earlier update left.
Installed ==
  /\ flash = [a \in Cells |-> IF a \in BootCells THEN BootCode
                              ELSE IF a = FlagAddr THEN AppFlag
                              ELSE IF a \in DOMAIN OldImage THEN OldImage[a] ELSE Erased]
  /\ ers = {}

SysInit ==
  /\ FlashInit \/ Installed
  /\ TasksInit
  /\ host = HostInit /\ rx = <<>> /\ late = {} /\ losses = 0 /\ copies = 0 /\ runs = 1
  /\ unmarked = FALSE

-----------------------------------------------------------------------------
(* The device and the tool                                                 *)

Asks(m, sid, sub) == m.sid = sid /\ m.sub = sub

\* boot_main takes a request of the tool.
Serve(m) ==
  \/ Refuse(m.sid)
  \/ m.sid = "session_ctrl" /\ SessionCtrl(m.arg)
  \/ Asks(m, "security", <<"seed">>) /\ RequestSeed
  \/ Asks(m, "security", <<"key">>)  /\ SendKey(m.arg)
  \/ m.sid = "write_id" /\ WriteHeader(m.arg)
  \/ Asks(m, "routine", <<"start_erase">>)  /\ EraseStart(m.arg[1], m.arg[2])
  \/ Asks(m, "routine", <<"erase_result">>) /\ EraseResult
  \/ m.sid = "download" /\ DownloadReq(m.arg[1], m.arg[2], Encrypted)
  \/ m.sid = "xfer" /\ XferData(m.sub[1], m.arg)
  \/ m.sid = "exit" /\ ExitXfer
  \/ Asks(m, "routine", <<"start_checksum">>)  /\ ChecksumStart(m.arg)
  \/ Asks(m, "routine", <<"checksum_result">>) /\ ChecksumResult
  \/ m.sid = "reset" /\ RequestReset

Deliver ==
  /\ rx # <<>>
  /\ Serve(Head(rx))
  /\ rx' = Tail(rx)
  /\ UNCHANGED <<host, late, losses, copies, runs>>

\* The device on its own; a restart loses the requests it had not taken.
Alone   == (Silence \/ EraseTask \/ AppAsks) /\ UNCHANGED <<netVars, host, runs>>
Restart == /\ Reset \/ PowerLoss \/ AppResets
           /\ \E n \in 0 .. Len(rx) : rx' = SubSeq(rx, n + 1, Len(rx))
           /\ UNCHANGED <<late, losses, copies, host, runs>>

\* Nobody listens on the bootloader's port in the application.
Ignored ==
  /\ mode = "app" /\ rx # <<>>
  /\ rx' = Tail(rx)
  /\ UNCHANGED <<vars, late, losses, copies, host, runs>>

Tool == HostNext /\ Inert /\ UNCHANGED <<late, losses, copies, runs>>

\* The user stops the tool and starts it; its datagrams do not outlive it.
Rerun ==
  /\ host.step # "done" /\ runs < MaxRuns
  /\ host' = HostInit /\ runs' = runs + 1
  /\ rx' = <<>> /\ tx' = <<>> /\ late' = {}
  /\ UNCHANGED <<losses, copies>> /\ Inert

-----------------------------------------------------------------------------
(* The network                                                             *)

Lose ==
  /\ losses < MaxLosses /\ losses' = losses + 1
  /\ \/ rx # <<>> /\ rx' = Tail(rx) /\ UNCHANGED tx
     \/ tx # <<>> /\ tx' = Tail(tx) /\ UNCHANGED rx
  /\ Inert /\ UNCHANGED <<host, late, copies, runs>>

Copy ==
  /\ copies < MaxCopies /\ copies' = copies + 1
  /\ \/ rx # <<>> /\ late' = late \cup {<<"request", Head(rx)>>}
     \/ tx # <<>> /\ late' = late \cup {<<"reply", Head(tx)>>}
  /\ Inert /\ UNCHANGED <<host, rx, tx, losses, runs>>

Arrive ==
  /\ \E c \in late :
       /\ late' = late \ {c}
       /\ rx' = IF c[1] = "request" THEN <<c[2]>> \o rx ELSE rx
       /\ tx' = IF c[1] = "reply"   THEN <<c[2]>> \o tx ELSE tx
  /\ Inert /\ UNCHANGED <<host, losses, copies, runs>>

-----------------------------------------------------------------------------
FileInFlash ==
  \A i \in DOMAIN File : \A k \in DOMAIN File[i].data :
    flash[File[i].addr + k - 1] = File[i].data[k]

\* The device serves a checksum, finds it right, and will say so.
ChecksumPasses ==
  /\ Asks(Head(rx), "routine", <<"start_checksum">>)
  /\ Served("routine") /\ Transferred /\ csum' = [state |-> 2, result |-> 1]

\* History, kept beside every step.
NoteMark(passes) ==
  unmarked' = ((unmarked \/ passes) /\ (FileInFlash /\ ~AppFlagValid)')

Others == Alone \/ Restart \/ Ignored \/ Tool \/ Rerun \/ Lose \/ Copy \/ Arrive

SysNext == \/ Deliver /\ NoteMark(ChecksumPasses)
           \/ Others /\ NoteMark(FALSE)

SysSpec == SysInit /\ [][SysNext]_sysVars

(***************************************************************************)
(* Fairness: the network delivers what it does not lose, the tool and the  *)
(* two tasks run.  Nothing makes a timeout, a power loss or a user happen. *)
(***************************************************************************)
FairSysSpec ==
  /\ SysSpec
  /\ WF_sysVars(Deliver /\ NoteMark(ChecksumPasses))
  /\ WF_sysVars(Tool /\ NoteMark(FALSE))
  /\ WF_sysVars(EraseTask /\ UNCHANGED <<netVars, host, runs>> /\ NoteMark(FALSE))
  /\ WF_sysVars(Restart /\ Reset /\ NoteMark(FALSE))

-----------------------------------------------------------------------------
(* Properties                                                              *)

\* What the user has: see SafeUpdate.
Boots == IF unmarked THEN "unmarked" ELSE IF ~AppFlagValid THEN "loader"
         ELSE IF FileInFlash THEN "file" ELSE "other"
Told  == IF host.step = "done" THEN "ok" ELSE IF host.step = "failed" THEN "failed" ELSE "nothing"

(***************************************************************************)
(* What the promise is made for: the file holds the application's entry,   *)
(* in the block of the flag, so that erasing it erases the flag; and it    *)
(* has no blank unit, for an erase cut off could make such a file of what  *)
(* was installed before.                                                   *)
(***************************************************************************)
WholeApplication ==
  /\ FlagAddr \in Touched(EraseRange[1], EraseRange[2])
  /\ \A i \in DOMAIN File : \A k \in DOMAIN File[i].data :
       File[i].data[k] \notin {Erased, Damaged}

Promise == INSTANCE SafeUpdate WITH boots <- Boots, told <- Told

(***************************************************************************)
(* The tool, the network and the two tasks of the device keep the promise  *)
(* of SafeUpdate: a device becomes bootable with the whole file only, and  *)
(* success is told of, and only of, a device that runs the file from then  *)
(* on, or would but for a flag whose write was lost without an error       *)
(* (vci_prog, boot_main_task, erase_routine_task, flash_write).            *)
(***************************************************************************)
KeepsPromise == Promise!Spec

(***************************************************************************)
(* "VCI8 Programe Complete Successfully." (vci_prog.cpp): when the tool    *)
(* prints it the file is in the flash, and the device will start it.       *)
(***************************************************************************)
SuccessIsTrue == Told = "ok" => Boots = "file"

(***************************************************************************)
(* The tool ends, although it waits for every reply without a timeout and  *)
(* polls for results without a limit, when nothing is lost.                *)
(***************************************************************************)
ToolEnds == <>(host.step \in Ends)

\* The receive timeout closed the session in the middle of the script.
SessionLost == host.step \in Steps \ {"session"} /\ svc.session # 2
\* The seed was 0, which the device takes for none.
NoSeedGiven == host.step = "key" /\ host.seed = 0

(***************************************************************************)
(* Without failures the script and the device agree on every step, over    *)
(* several segments, each with as many blocks as it has and numbers that   *)
(* wrap within it: the update succeeds, but for a receive timeout, the     *)
(* seed 0 and a datagram copied by the network (vci_prog, the service      *)
(* handlers).                                                              *)
(***************************************************************************)
UpdateSucceeds == <>(Told = "ok" \/ SessionLost \/ NoSeedGiven \/ copies > 0)
=============================================================================
