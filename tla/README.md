# Verification of the sample_boot bootloader

TLA+ models of the image built from `src/sample_boot` for the NXP MPC5748G: a
bootloader that receives an application over UDP, writes it to the on-chip flash
and marks it bootable, the tool that talks to it, and what else is in the image: the
hand-over of network buffers, a PTP daemon, and digital outputs.
The modules are translated from the C source; TLC checks them on small instances
and TLAPS proves the main safety properties for every value of the constants.

Line numbers below are those of the commit the modules were written from;
`PROJECT.json` gives them for every definition (`map`).

## 1. The system

### Parts, and how they interact

| Part | Source | State it keeps | Operations |
|---|---|---|---|
| Start-up check | `startup_MPC5748G.S`, `system_MPC5748G.c` | none; reads the application flag in flash and `ENTER_BOOT_REQ_FLAG` in RAM | jump to the application, or clear the RAM and start the bootloader |
| `boot_main` task | `boot_app.c` | `svc_state` (session, unlock bits, seed, transfer), `checksum_routine_data`, `enc_header`, `rc4_ctx` | ten diagnostic services over UDP, a receive timeout of 3 s, the software reset |
| `boot_routine` task | `boot_app.c` | `erase_routine_data`, shared with `boot_main` without a lock | polls for an erase request, erases, publishes a result |
| Flash map | `boot_app.c` (`check_flash_address_valid`), `flash_drv.c` (`flash_sel_table`) | constant tables | range check, block selection |
| Flash wrapper | `flash_drv.c` over the C55 driver | the flash, the controller's `MCR` bits | `flash_write`, `flash_erase`, `flash_drv_init` |
| Framing | `boot_app.c`, `tool/vci8_prog/src/boot_comm.cpp` | the buffers of both ends, 16 bytes for a reply | encode and decode frames |
| Cipher and checksum | `crc32.c`, `rc4.c`, `rnd.c` | cipher and generator states | CRC-32, RC4, LFSR |
| Host tool | `tool/vci8_prog` | the memory image read from an S-record file, the block number | one linear script of requests, each waiting for its reply |
| Encryption tool | `tool/vci8_enc` | none | encrypts the data of an S-record file |
| Network buffers | `NetworkInterface.c`, `BufferAllocation_1.c`, the UDP path of FreeRTOS-Plus-TCP | the pool, the descriptor rings, the event queue, the socket's list | receive, send, with or without a copy |
| Digital I/O | `hwio.c` | per chip: an image of the outputs, a request flag, a mutex | `DioWrite` by any task, a transfer over SPI |
| PTP port | `protocol.c`, `bmc.c`, `servo.c`, `timer.c` | port state, foreign masters, parent, timers | state decision, state machine, handlers of messages |
| PTP receive queues | `net.c`, `ex_inc/rb.h` | two ring buffers | two tasks fill, one empties |
| PTP clock | `usr_timer.c` | seconds in memory, nanoseconds in a timer, the last reading | read, set, the rollover interrupt |
| Board, OSIF, kernel, IP stack, drivers | the rest | | set-up and vendor code |

The client sends a datagram; `boot_main` (priority 4) decodes it, looks the
service up in `boot_service_table`, refuses it when the session is wrong or
locked, else runs the handler and sends one reply. Everything is done in the
handler except erasing: that is handed to `boot_routine` (priority 3) through
the five fields of `erase_routine_data`, and the client polls for the result.
A matching checksum makes the handler write a flag to flash; at the next reset
the start-up code finds it and runs the application. The application returns by
setting the flag in RAM and resetting.

The bootloader reaches the network through the IP task, which owns every buffer
between the controller and a socket; `boot_main` receives and answers in the same
buffer (`FREERTOS_ZERO_COPY`). The PTP daemon has three tasks of one priority: two
wait at sockets and fill a ring buffer each, the third runs the port's state
machine every seven ticks and empties them. `SpiMainFunction` carries out what
`DioWrite` asks for. The three share no variables with each other or with the
bootloader. The last two are libraries in this image: `app_init` creates only
`boot_main` and `boot_routine`, and nothing calls `PTPd_Init`, `SpiInit`,
`SpiMainFunction` or `can_set_transciever_mode`, the caller of `DioWrite`. Their modules
are about an image that calls them.

### What is hard about it

* **Two tasks, no lock.** `boot_main` preempts `boot_routine` between any two
  of its stores. A poll or a new request may arrive when `state` is already 1
  and `req` not yet 0, or `result` is written and `state` not yet 2.
* **Flash under erase.** Blocks are written, read back and checked while the
  other task erases; the controller then refuses to program, and the wrapper
  loses that refusal, as it loses that of a controller that does not take the
  command for another reason.
* **Crashes.** Power fails at any moment, in the middle of an erase above all;
  the flag in flash and the image it vouches for must stay consistent.
* **Sessions.** Unlock bits are kept per session; timeouts, resets and changes
  of session come in any order, in the middle of a transfer too.
* **Partial failure.** A block that fails to program has already advanced the
  keystream, and the client may carry on.
* **Numbers.** `addr + size` is a 32-bit sum and clients choose both; the block
  number has eight bits.
* **The network.** Datagrams are lost and duplicated; the host has neither a
  timeout nor a retry, and matches replies by service only. A call of the tool
  decrypts its frame buffer whatever `recvfrom` returned.
* **Buffers without an owner's mark.** Whether a network buffer may be touched
  depends on which of five queues it is in and whether `sendto` took it.
* **Rings without a lock.** The tasks of the PTP daemon are suspended by time
  slices between any two accesses to an index, and an index that wraps is stored
  twice.
* **Two halves of a time.** Seconds and nanoseconds are read, and set, one after
  the other, while the timer goes on and its interrupt may wait.
* **Times grow old.** The clock is set while messages with receive times of the old
  setting wait in a queue, in a half-finished pair or in the hands of a task.
* **Masters come and go.** Announcements, time stamps and timeouts reach the PTP
  port in any order, before or after a decision it has already been asked for.

### What makes each part correct

| Part | Properties |
|---|---|
| Flash map | no range a client can get accepted touches the bootloader; the check and the selection are exact for ranges that do not wrap |
| Erase handshake | a result reported is that of the last accepted request; a completed erase always has one; the range does not change under the task; every accepted erase is answered |
| Sessions | nothing but the current session is ever unlocked; silence relocks the device |
| Transfer | an open transfer has a checked range, stays inside it and numbers its blocks in sequence |
| Checksum and flag | the flag appears only after a matching checksum of read-back data in an unlocked session; while it is there, the data is |
| Bootloader | its own flash never changes |
| Host | the tool reports success only when the file it sent is in the flash and the device boots it, unless the write of the flag was lost without an error (finding 1), and that stays so; it ends; without failures it succeeds |
| Framing | the device hears what was sent; the frames of both ends announce their length truly and fit each other's buffers; a call returns what became of its own request |
| Network buffers | a buffer has one owner; none is lost but in one known window; the pool does not stay empty |
| Digital I/O | no write of a neighbouring bit is lost; an output is as asked for or a transfer is due |
| PTP queues | two bounded queues: whole datagrams, in order, at most once, and they are taken in the end |
| PTP clock | a reading is exact when it can tell a rollover; setting it puts it one second off at most |
| PTP port | a port that follows has a master, a record and a running timer; it is a slave only of the master it calibrated to; it comes to follow a master that goes on |
| PTP times | the times of an offset, and of a path delay, belong together: one master, one request, one setting of the clock |

## 2. Modules

`FlashMap` (pure) → `FlashDrv` (flash content) → `BootServer` (the two tasks and
the boot check) → `MCBootServer` (instances). `DeviceMap` instantiates
`FlashMap` with the device's tables. `ProgHost` (the tool) and `BootServer` are
composed, over a network, in `BootSystem`, which implements `SafeUpdate`;
`MCBootSystem` gives the instances. `MCLayout` is the small flash of both.
`BootFrame` has the bytes that the requests and replies of both are made of.
`UdpBuffers`, `HwIo`, `PtpNet` (which implements `PtpQueue`), `PtpPort` (instance:
`MCPtpPort`), `PtpTimes` and `PtpClock` each stand alone. They share no state with the
rest, nor, as modelled, with each other (what one PTP module leaves open another fixes):
`MCParts` checks these six, `BootFrame` and `DeviceMap` in one run, whose first state
says which of the eight `part`s moves.

### FlashMap
`check_flash_address_valid` and `flash_get_block_select` over any tables, with
sums modulo `AddrMod` (2^32 in the device). `Touched` is what a sequence of
writes or an erase of a range can reach. The sums wrap as in the code.

### DeviceMap
The two tables of the device, and as state machine a probe: one address and
size after another. `Grain` scales addresses: 1 for TLC, whose
integers have 32 bits, 4096 for the device. `DeviceMapProofs` proves both, for
any probes.

### FlashDrv
The content of the flash and the set `ers` of blocks being erased, with every
outcome of the driver calls as an action. A write is done, refused (not blank),
fails leaving a damaged unit, or is *lost*: `FLASH_DRV_Program` returns
`STATUS_BUSY` while `MCR[ERS]` is set, or `STATUS_FLASH_ERROR_ENABLE` when the
controller does not take `MCR[PGM]`, and `flash_write` overwrites either status with
the one of `FLASH_DRV_CheckProgramStatus`, which is success. The second needs the
fault "program" and no erase. An erase begins, is not enabled, ends well, ends badly,
or is cut off by a reset; the latter two leave each unit of the blocks as it was,
blank or damaged. No driver call checks that an address is one of the flash's:
reading a block under erase, or a unit that is no flash, returns anything, and a
write to what is no flash is lost or refused according to what its blank check reads.

### BootServer
Variables are named after the code's: `svc` (`svc_state`), `erase`
(`erase_routine_data`), `csum` (`checksum_routine_data`), `cipher`
(`enc_header`, `rc4_ctx`), `pc` (where `erase_routine_task` is). `mode` and
`enter_req` are the boot check's. `folded`, `image` and `job` are history
variables that no action reads, apart from updating them.

* A handler of `boot_main` is one action: the task never blocks in a handler,
  and `boot_routine`, of lower priority, cannot run meanwhile. The
  erase in progress in the flash controller is the exception; its visible effects
  (reads of anything, writes lost) are in the handler's action.
* `boot_routine` has one action per store `boot_main` can see: `TakeErase`
  (686-687), `ClearRequest`, `BeginErase`, `EndErase`, `JudgeErase`,
  `PublishErase`. The order of the stores is that of the program text. The
  fields are not volatile, so the language would allow a compiler to move
  them; the object file in the repository (`obj/Release/core0/boot_app.o`)
  stores them in this order, and that is what is modelled.
* A request arrives from `\E` over small sets of arguments: any number of
  clients in any order, which includes duplicated, reordered and lost
  datagrams. `Refuse` and `Malformed` are the dispatcher's answers;
  `Silence` is the receive timeout.
* `StartUp` is the boot check after a software reset, a power loss (the RAM
  flag then holds anything) or a reset by the application.
* Operators that a comment marks "Mutant" are wrong variants of the definition
  that follows them. No action uses them; they serve to show that the
  properties notice.

In `BootServer` itself clients are arbitrary and nobody reads the replies; with
`Listening` the replies are queued in `tx` for `BootSystem`.

### ProgHost
The script of `vci_prog` as a program counter (`host.step`) over the requests of
`boot_comm.cpp`. `Ask` is the `sendto` of `boot_req`, `Hear` its `recvfrom`
with the comparison of the reply and what `vci_prog` does next. A reply is
compared by service, echoed sub-function, routine or block number, as the code
does; whatever does not match ends the script. The file is a sequence of
segments inside the application's flash (others are ignored by the code, too);
an encrypted one has its units encrypted with a single keystream and its CRC in
the header, as `vci8_enc` leaves them.

### BootSystem
`Deliver` hands the oldest request to the handler of `BootServer` it is for; the
reply goes to `tx`, from where the tool takes it. The network keeps the order,
except that it may lose a datagram (`Lose`), or copy one (`Copy`), the copy
arriving at any later time ahead of what is under way then (`Arrive`). A restart
of the device loses a prefix of the requests it had not taken. `Rerun` is the
user who stops the tool and starts it again over whatever state the device is
in; datagrams of the old run do not outlive it. The flash is blank or holds an
older application. `unmarked` is a history: the file is in the flash and its checksum
was answered with success, but the flag is not there. No action reads it.

### SafeUpdate
The promise to the user, with two variables: what the device will start
(`loader`, `file`, `other`, or `unmarked`: the loader, over a whole file whose mark was
lost) and what the tool said. A device that starts nothing becomes bootable with the
whole file only; success is said only of a device that holds the whole file, and
nothing changes that afterwards. The device also starts it, with one exception, which
`Miss` names: the controller did not take the write of the flag, the wrapper lost
that error (finding 1), and nobody reads the flag back. An update
may ruin what was installed: power lost during an erase can leave the old flag
over a damaged image, because the code does not clear the flag before the rest;
`Ruin` says so instead of hiding it.

Abstractions: an address is one programmable unit; a transferred block is one
unit; a write of a unit is atomic (one that power loss cuts off is a failed
write followed by the power loss); CRC-32 is the sequence of values it ran over,
so two images of different content never collide; the keystream is a key and a
position, and a block decrypted anywhere else becomes `Scrambled`; a security
key is the pair (seed, session), LFSR32 being one-to-one in the seed for a given
session; response codes are kept, the bytes of a request are `BootFrame`'s.

### BootFrame
`build_crypt_msg` and `decrypt_msg` on bytes, with the real mask and the real
sizes (the mask as arithmetic on the bits of a byte), and the table of the requests of `boot_comm.cpp`: their bytes, their lengths,
and what each call demands of a reply. A call builds its frame (`Prepare`), sends it
(`SendRequest`), and judges whatever is then in its frame buffer (`GetReply`,
`SocketFails`): after a failure of the socket that is its own request. The device
decrypts into a buffer that keeps what was there (`Decrypt`), and a service answers
in place (`Agree`, with the length of its positive reply; `Refuse`). Whether a
service agrees is `BootServer`'s business and open here. The sum of the bytes in a
frame is left out: neither end looks at it. `decrypt_msg` copies as many bytes as a
frame announces and compares that neither with what came nor with its destination
(`boot_app.c:107-124`). What it does with a frame of anyone but these two ends, which
may announce more than it carries or than `buf_decrypt` holds, has no defined outcome
and is not modelled; `FramesFit` says that no frame the two send each other is one.

### UdpBuffers
Where each network buffer is: in the pool, at a receive or transmit descriptor, in
an event for the IP task, in the socket's list, or in the hands of the IP task or of
an application. An action is one hand-over: the controller fills a buffer (`RxFrame`)
or has sent one (`TxDone`), the EMAC task loses one (`RxEventLost`, `RxDropped`), the
IP task passes it on, drops it, answers with it or sends it (`vClearCurrentTxBuffer`
and `SendFrame` are two steps: the controller works in between), an application
receives, answers in the same buffer (`SendSame`), in a copy (`SendCopy`, `HandOver`),
or releases. `KeepsSent` says whether the application still releases what it has
sent, as `boot_main_task` does and the stack's own client does not.

### HwIo
`SpiMainFunction` over all chips and `DioWrite` from any tasks, an action per access
that another task can observe: the test of the request outside the mutex, the mutex,
the transfer (which may fail with the chip select already raised), the load and the
store of the image byte, the request. `wish` is a history of what was last stored. As
nothing in the image calls these functions, the module assumes nothing of how often
they are called and promises nothing that depends on it.

### PtpNet and PtpQueue
The two rings of `net.c`, an action per access to an index or an item. The PTP task
selects, copies and advances, or empties a queue by loading one index and storing
the other. `Halfway` says whether a time slice may end between the two stores (of the
size, then of 0) to which the repository's own build compiles the increment of the
last index. `PtpQueue` is the promise: a bounded queue that delivers whole datagrams
in order, each at most once, and may discard from its front.

### PtpClock
`get_current_time` and `setPTPUsrTime` with the timer of the controller and its
interrupt, which may wait up to `Delay` while interrupts are off. A nanosecond count
is one of `Second` units; `Late` and `Early` are the two thresholds of the correction.

### PtpPort
`doState` in its three parts (`pc`): decision, recommended state, the port's state.
A master's data set is a source, a grandmaster, a rank and a number of steps, in the
order of the comparison; `bmc` goes over the records as the code does. `toState`
stops and starts timers and forgets a Sync. What an offset does to the servo is left
open (good, none yet, a fault). `lock` and `heard` are history.

### PtpTimes
Which times the slave puts together: a Sync's receive time with its Follow_Up
(`handleSync`, `handleFollowUp`, `updateOffset`), and that result with the times of a
delay request and of its answer (`issueDelayReq`, `handleDelayResp`, `updateDelay`).
`UseOffset` may set the clock, as `updateClock` does, and `initClock` then empties the
queues and forgets the pair. Of a receive time only its age is kept: read since the
clock was last set (`now`), before (`past`), or before and in the rx task's hands, not
yet in the queue, when it was set (`caught`; `incoming` is that one datagram). A delay
request is known by how many came after it, so that an answer is to the last one exactly
if its age is 0; numbers are compared as in the code, an `unsigned short` with an `int`.
Masters send any number, in any order, any number of times. `moved` says that the parent
is another one than when a waiting Sync was taken.

## 3. Runs

| Run | Question | Result |
|---|---|---|
| `boot_races` | Under all interleavings of the two tasks, with power losses and failing erases and writes, when clients erase the image and its flag, a range that wraps, or no flash at all: do the tasks agree on every erase, does the flag vouch for what is in flash, do the bootloader's cells stay? | yes |
| `boot_sessions` | Can any order of sessions, seeds, keys, plain and encrypted transfers leave another session unlocked, or an open transfer out of its window? | no |
| `boot_live` | With the same failures, clients that erase and download a range that wraps, and a session that serves nothing: is every accepted erase answered, does silence relock the device, do the bootloader's cells stay? | yes |
| `system_update` | Do tool, network and device keep the promise of `SafeUpdate` with losses, power losses, failing writes and erases, and restarts of the tool? | yes, with the exception it names |
| `system_live` | Does an update of an encrypted file of two segments, the first of two blocks, succeed when nothing goes wrong? With one datagram copied and delayed, does the tool end, and is its success true? | yes |
| `parts` | The eight parts that share no state, see below | yes |
| `device_map_wrap` | Is every accepted range flash that clients may program? | **no**: a range that wraps past 2^32 is accepted (finding 2) |
| `flag_lost` | Without failing writes, does "checksum OK" mean that the flag was written? | **no** (finding 1) |
| `system_lossy` | Is the tool's success true when a datagram is copied and another lost? | **no** (finding 3) |
| `udp_boot` | Does a buffer have one owner when the application is `boot_main`? | **no** (finding 4) |
| `ptp_halfway` | Does `netSelect` tell the truth if a task is suspended between the two stores of an index? | **no** (finding 5) |
| `ptp_best` | Is the record that `bmc` takes the best one? | **no** (finding 6) |

| Part of `parts` | Properties | What they say |
|---|---|---|
| `map` | `BootBlocksSafe`, `SelectExact` | no accepted range of the device's tables selects a bootloader block, wrapped or not; the selection is exact for ranges that do not wrap |
| `frame` | `FramesFit`, `HeardAsSent`, `VerdictTrue` | every frame of the two ends announces what it carries and fits (a framed reply of `read_data_by_id` fills the 16 bytes exactly); the device hears what was sent, over stale buffers; a call returns its own request's fate even when the socket fails |
| `net` | `WholeInOrder`, `NoSharedItem`, `SelectTrue`, `ImplementsQueue`, `EventTaken` | the rings are the queues of `PtpQueue`, without a lock; event messages are taken in the end |
| `port` | `FollowsSomeone`, `AsksForDelay`, `SlaveWhenCalibrated`, `PortFollows` | the port's master, records and timers fit together; it comes to follow a master that goes on |
| `times` | `DelayFits`, `OffsetFits` | a path delay is made of one request, its own answer and times of one setting of the clock; the two times of an offset are of one master unless the parent changed in between, and neither outlives a setting of the clock in a queue |
| `hwio` | `NoWriteLost`, `ShownOrPending` | writes of neighbouring bits and failing transfers lose nothing |
| `buffers` | `OneOwner`, `LostBySendOnly`, `PoolRefills` | with a client that leaves alone what it has sent, a buffer has one owner; a buffer is lost in one window of the driver's transmit path only |
| `clock` | `ReadExact`, `SetWithinASecond` | a reading that could tell a rollover is exact; setting is one second off at most |

Every property of a passing run has a mutant in `PROJECT.json`: a plausible
mistake in the code (a dropped guard, a missing reset, the status stored for the
result...) under which TLC finds it violated.

### Bounds

* `boot_sessions`, `flag_lost`, `system_update`, `system_lossy`: a flash of eight
  addresses in the layout of the device: a block below the programmable ones, a first
  segment, the bootloader, the block with the flag and the first application unit, a
  second application block, no flash. Two application blocks are needed for an erase of
  one while the other is written or checked; the flag shares a block with the first,
  as in the device.
* `boot_races`, `boot_live`: six addresses, because of the failures: every cut or failing
  erase leaves each unit in one of three ways. Addresses 0 (a block below the
  programmable ones), 1 (the bootloader), 2 and 3 (one block: the flag, an application
  unit), 4 and 5 (no flash); one segment, of 3 and 4, that ends behind the flash, so
  that an accepted range can be outside it.
* `boot_races`: clients erase the block of flag and image, a range that begins at 5 and
  wraps to 0, and one outside the flash, and ask for the bootloader's, which is refused.
  `MaxTotal` = 1: the one application unit is downloaded, marked and erased
  again, any number of times, with every failure at every step.
* Elsewhere `MaxTotal` = 2 to 4 units transferred since the last reset of the session, enough
  for two blocks, a failed and a repeated one, and two transfers of one unit.
  It is a bound on histories only: resets set it back, and what it excludes does
  not arrive.
* `MaxPos` = 1 key position, so that two positions, in and out of step, exist.
* `SnMod` = 2 for the 8-bit block number (1 where `MaxTotal` is), so that it wraps.
* `Seeds` = {0, 1} (and 2 in `boot_sessions`, so that an old seed's key can be
  tried): 0 is the value the handler takes for "no seed".
* `SessionArgs`: the two sessions the table serves, one it does not (3), and two
  sub-functions out of range (0 and 9).
* `boot_races` merges the values it does not tell apart (what is decrypted out of
  step, the bootloader's code and the image's data are one model value): a block
  under erase reads as anything, so every value multiplies the states.
* `system_update`: one segment of two blocks, so that the block number wraps; two
  losses (a request and a reply); three runs of the tool, so that a run finds what
  two others left. No copies: a copied erase request that arrives between
  the last block and the checksum makes the device bootable with a blank
  image even when the tool reports failure, so the promise needs a network
  that does not copy (finding 3 is the same mechanism).
* `system_live`: nine addresses and an encrypted file of two segments, of two blocks and of one, so
  that the block number wraps within the first and begins again with the second, which
  continues the keystream; one copy.
* `boot_live`: erases and downloads of the range that wraps, and of the bootloader, which is
  refused; `SessionArgs` has session 3, which serves nothing. Failing and cut-off erases
  of the image itself are `boot_races`'s.
* `map` probes the borders of every block and segment, one page either
  side of them, and zero, one and very large sizes.
* `frame`: the real sizes (a block of 1024 bytes, a buffer of 1280, frames up to
  1031 bytes, so that the length needs its second byte), `MaxCalls` = 2 requests
  between two starts of the device, so that the second finds what the first left;
  unimportant bytes are 0 or the frame's own flag, 0x7E.
* `net`: `Size` 3, the smallest ring that is neither full nor empty in between;
  `MaxSent` = 4 datagrams per queue, so that both indices wrap. `Halfway` is FALSE: the
  run covers every interleaving of the three tasks that does not part those two
  instructions, and `ptp_halfway` is the run that does.
* `port`: three masters for two records (the real limit is five), so that one is
  displaced; one of them changes its rank, another is its equal.
* `hwio`: one chip with two outputs and two callers; chips do not interact.
* `buffers`: five buffers, two receive and two transmit descriptors (in the image 50
  for the stack, and 8 and 8: `NetworkInterface.c:53-54`): enough for every place to
  hold one while the pool is empty. `udp_boot` needs four and one receive descriptor.
* `clock`: a second of four units, `Late` = 1, `Early` = 2, so that a reading may fall
  into, between and beside the thresholds; the interrupt waits at most one; two seconds.
* `times`: two masters, numbers modulo 2 and ages to 2, so that a number comes round; one
  message received and not handled of each kind. Longer queues are left to the proofs.

The proofs lift the bounds for the safety properties: the constants are then
arbitrary.

### Fairness

`FairSpec` assumes `WF(EraseTask)` and `WF(Reset)`. `boot_main` spends its time
in `FreeRTOS_recvfrom` with a 3 s timeout, so `boot_routine` runs except
while the network saturates the processor; an erase in hardware ends,
well or not; a delay before a reset ends. Nothing is assumed of clients.
`RelocksWhenQuiet` has its own premise: once no request arrives any more,
the receive timeout does (`WF(Silence)`), with resets and power losses
unrestrained. `FairSysSpec` adds that the network delivers what it does not
lose and that the tool runs; copies need not arrive, and no timeout, failure
or user is assumed to act.

Of the parts (`PartsSpec` joins `NetFair`, `PortFair` and `BufFair`): the
kernel gives tasks of one priority the processor in turn and a task that can run
does, so the PTP task goes on (weak fairness of what it has begun, and of taking an
event message), `doState` is called for ever, the IP task and an application finish
what they have begun. Nothing is assumed of the network, of masters or of anyone who
calls `DioWrite` or `SpiMainFunction`; `ComesToFollow` and `PoolRefills` carry their own
premises.

## 4. Proofs

| Module | Theorems |
|---|---|
| `DeviceMapProofs` | `NoBootBlockSelected`, `DeviceOutOfReach`, `BootBlocksAreSafe`, `CheckIsExact`, `SelectionIsExact` |
| `BootServerProofs` | `TypeCorrect`, `EraseResultIsHonest`, `EraseOutcomeIsReady`, `EraseRangeIsStable`, `ImageIsSound`, `OnlyHereUnlocked`, `TransferStaysInWindow`, `BootCodeIsIntact`, `FlagComesFromChecksum` |
| `BootSystemProofs` | `SuccessIsTold`, `UpdateIsSafe` (the refinement of `SafeUpdate`) |
| `BootFrameProofs` | `FramesOfBothEndsFit`, `RequestsArriveIntact`, `CallsReturnTheOutcome` |
| `PtpNetProofs` | `NetTypeCorrect`, `ReceivedWholeInOrder`, `ItemNotShared`, `SelectTells`, `RingsAreQueues` (the refinement of `PtpQueue`) |
| `HwIoProofs` | `NoWriteIsLost`, `OutputsShownOrPending` |
| `PtpProofs` | of `PtpPort`: `SlaveIsCalibrated`, `DelayIsAskedFor`, `SomeoneIsFollowed`; of `PtpTimes`: `DelayOfOneTime`, `OffsetOfOneMaster`; of `PtpClock`: `ReadingsAreExact`, `SetIsWithinASecond` |
| `UdpBuffersProofs` | `BuffersHaveOneOwner`, `OnlySendingLoses` |

The assumptions are the `ASSUME`s of the modules: tables of ranges inside the
address space, the flag in flash and outside the bootloader, a flag value that
no unit of an image and no blank or damaged unit has, and so on; TLC evaluates
them in every run. That no image holds the flag's pattern *in one unit* matters
only at the flag's own address, which is in no segment of the device: a client
that tried to program it would be refused by the range check. `BootCodeIsIntact` also takes as hypothesis that no accepted range
reaches the bootloader's cells, which `DeviceOutOfReach` proves of the tables of
the device, at byte granularity and for all 2^64 pairs of address and size.
`FileAssumption` says what of the file `vci_prog` relies on: every unit of every segment
lies in the application's flash (`vci_prog.cpp:102` checks both ends of a segment; that
the sum does not wrap in between is left to the linker, and so is that two segments
which overlap agree).

* **Erase handshake.** The three properties of it are not inductive: they say
  nothing about the states in between. `Handshake` ties `pc`, `state`, `req`,
  `result`, `failed` and the history `job` together: `state` is 1 exactly while
  the task is not polling; a request is `pending` exactly while it waits or its
  flash operation runs; from then on `failed` tells `job`'s fate; `result` is 0
  while a request waits and that of `failed` at `publish`. That a request is
  armed only when `state` is not 1 and `req` is 0 is what keeps the range still.
* **The image.** `KeptInv` says of `folded` and of `image` that every pair in
  it that is not blank is in the flash still, and that no pair in it is in a
  block that a pending erase will wipe. The argument is: a unit
  that is not blank is never programmed again, because a write needs a blank
  unit and no erase under way; a block only changes when it is under erase; and
  what is under erase was asked for, at which time it was taken out of both sets.
* **Transfers and sessions.** `TransferWindow` and `UnlockedOnlyHere` are
  inductive with the type invariant.
* **Types.** `NetTypeOK`, and `CheckExact` of the map, are proved and in no run. `TypeOK`
  of the device needs only that sums modulo `AddrMod` are addresses.
* **The update, end to end.** `SysInv` says, while no datagram was copied, that at most
  one datagram is under way, and only while the tool waits (`Channel`): that is why a
  reply can be matched by service alone. `Sync` says what the device holds when the
  script stands at a step and its request has not been taken, `Replied` what it holds
  when the reply is under way: nothing summed up until the first download; then exactly
  the `pos` units sent so far (`Counted`), each of which is still in the flash with the
  value that was summed up (`StillThere`); the window of the segment that is open; an
  erase task at rest from the answer "1" to the poll on; the flag and the file in place
  from a checksum result of 1 on. All of it is conditional on the device's session: a
  receive timeout or a restart takes the session away, and then the device refuses.
  `Matches` says that the tool's own sum is that of the file. A sum over a sequence that
  is put together of segments needs induction: `FlatIs` finds the function that
  `FlattenSeq` chooses, `Places` that every unit of the file has one place in `FileSum`;
  both go by induction over sets of numbers, in the form of well-foundedness, which takes
  no operator for a parameter. Segments that overlap are the reason why `StillThere`
  speaks of some unit at the address instead of the unit itself.
* **Success.** `SuccessIsTold` says that while no datagram was copied, a tool that printed
  success leaves the whole file in the flash, and the device bootable unless `unmarked`.
  The exception is the one way left to lose the flag: there is no erase under way
  when the tool's checksum is served, so only a controller that did not take the write
  of the flag (`STATUS_FLASH_ERROR_ENABLE`) can have gone unnoticed.
* **The promise.** `UpdateIsSafe` adds `FlagGone`: from the end of a successful erase until
  the checksum is accepted the flag is not there, in the task (`DeviceGone`: what is being
  erased is the range of the file, and the block of the flag is in it), in the result that
  a poll will find, in the answer under way, and at the steps of the script behind it
  (`ToolGone`). Every step of the device then either leaves the flag away, or only takes
  content away (`NoTrick`), or is the checksum that sets the flag on the whole file.
  Three hypotheses are needed, and TLC finds the counterexample without each: that
  nothing is copied (finding 3); that the file reaches into the block of the flag, so that
  its erase clears the flag (an image that only holds later blocks, which `vci_prog` would
  load as well, leaves the device bootable all the time); and that no unit of the file has
  the value of blank flash, because an erase cut off may by chance leave just the file of
  an old image. The last two are `WholeApplication`, which TLC evaluates on the files of
  the runs. A device that holds the file and the flag before the tool starts is left out
  (`Boots # "file"`), as in `SafeUpdate`.
* **Frames.** The masks are given by arithmetic (`Bit`, `Masked`: the bits of 0x55 are
  inverted), and that masking twice changes nothing is proved through the eight bits of a
  byte (`MaskedTwice`, `CryptTwice`). `FrameInv` says where the request is: in the tool's
  buffers (`Own`), on the wire or decrypted in the device (`Asked`), or answered, in place,
  on the wire or back in the tool's frame buffer (`Answered`). That a call which judges its
  own request after a socket failure does not take it for an answer comes from the service
  id (`VerdictOnItself`).
* **Rings.** All theorems about them assume `~Halfway`; with it they are false
  (finding 5). `RingInv` says that the items between the indices hold the datagrams
  `taken + 1 .. sent` in order and whole (`Items`), what the item being filled holds so
  far and that it lies outside (`Filling`), what the PTP task has copied (`Copying`),
  that an index loaded for emptying has only been overtaken by new datagrams
  (`Emptying`), and what a positive `netSelect` saw (`Selecting`). `RingsAreQueues` is
  the refinement: each step of a task is a step of `PtpQueue` or stutters.
* **Outputs.** `HwInv` ties who holds a chip's mutex to where that task is, and says
  that a cleared request means that what was shifted is the image.
* **The port.** `PortInv` says that a port with a pending SELECTED event got it from its
  parent, unless CHANGED is pending too, which the next part of `doState` looks at first.
  `FollowInv` adds that the records counted are written, and that a port that follows has
  its parent among them. `bmc` goes over its records with a recursive function; that what
  it takes is one of them (`ChosenIsRecord`) is proved by induction over a set of numbers.
* **The clock.** `ClockInv` bounds how far the seconds may be behind the timer: by one,
  and only while the interrupt waits; a fresh last visit then is in the thresholds.
* **Times.** `TimesInv` says that nothing in the event queue and no Sync that waits has a
  time that is `past`, that a Sync is waited for only while the port follows, that an
  answer which is not late is to a request since the clock was set, and that a stamp of
  before means that there has been none.
* **Buffers.** `BufInv` says that no buffer is twice in one of the places a buffer can be
  (`Apart`) nor in two of them (`Disjoint`): each hand-over changes two places. It needs
  `~KeepsSent`; with `boot_main` as the client it is false (finding 4).

Only model-checked: liveness (`EraseAnswered`, `RelocksWhenQuiet`, `ToolEnds`,
`UpdateSucceeds`, `EventTaken`, `PortFollows`, `PoolRefills`), which is out
of the prover's reach, as is ENABLED; and that success is true with one datagram copied
and none lost (`system_live`). Every other safety property and both refinements that a
passing run checks are proved.

## 5. Findings

1. *A checksum can be reported OK although the flag was not written*
   (`flash_drv.c:208`, run `flag_lost`). `flash_write` overwrites the status of
   `FLASH_DRV_Program` with that of `FLASH_DRV_CheckProgramStatus`, so a write
   refused because an erase is running counts as done. If a client starts
   an erase and validates the checksum before it has ended, it is told 1
   ("ok") and the device does not boot the application. The host tool waits for
   the end of its erase, so it does not meet this unless a datagram is
   duplicated. It meets the other way: a controller that does not take `MCR[PGM]`
   (`STATUS_FLASH_ERROR_ENABLE`, `flash_c55_driver.c:885-890`) loses the flag in the same
   manner with no erase running, and the tool prints success. `SafeUpdate` and
   `SuccessIsTrue` name that case and promise the rest. The image stays safe:
   `ImageSound` holds.
2. *The range check wraps* (`boot_app.c:74`, run `device_map_wrap`). The comment
   promises that 1 means program flash; a range starting near 2^32 whose end
   wraps to a small address is accepted too. The bootloader is not harmed:
   `NoBootBlockSelected` is proved for wrapped ranges as well. But neither
   `FLASH_DRV_BlankCheck` nor `FLASH_DRV_ProgramExecution` checks an address, so a
   download to such a range (it begins at 2^32 - 0x57F000 or above) reads, and writes
   if it reads all ones, whatever is there; what that does to a device at those
   addresses is not modelled.

3. *The tool can report success of a device that does not hold the file*
   (`boot_app.c:309`, run `system_lossy`). The handler compares checksums without
   asking whether anything was erased since the transfer, and the tool takes any
   matching datagram for its answer. A copy of the erase request that arrives
   after the erase, and whose reply is lost, erases what is being transferred;
   a block sent while that goes on counts as written (finding 1), the checksum
   matches, and the tool prints "VCI8 Programe Complete Successfully.". It takes
   two rare events of the network; without copies (`system_update`), or with a
   copy and no loss (`system_live`), success is true.

4. *A buffer that was given away is released* (`boot_app.c:835`, run `udp_boot`).
   `boot_main_task` answers with `FREERTOS_ZERO_COPY` in the buffer of the request and
   releases it whatever `sendto` returned. The stack's comment says that the driver
   frees it after sending (`FreeRTOS_UDP_IP.c:213-214`), and its own client releases
   only what `sendto` did not take. The buffer is in the pool and on its way out at
   the same time, and may be filled again before it is sent. (At the last step of the
   run's trace the IP task, of higher priority, would run first; the same two owners
   meet when the buffer is on the transmit descriptor.) With a client that
   follows the rule, `OneOwner` holds (run `parts`).
5. *An index of the PTP queues is stored twice* (`rb.h:28`, run `ptp_halfway`). In the
   repository's own build the increment of the last index stores the size and then 0.
   A task of the same priority that gets its time slice in between sees an index behind
   the array; `netSelect` then reports a datagram that is not there, against its
   comment (`net.c:154-155`). Without that one pair of instructions the rings are
   exact queues, which is proved.
6. *The best master is the worst* (`bmc.c:420`, run `ptp_best`). The comparison
   returns 1 when its first argument is better, "similar to memcmp" (`bmc.c:251`); the
   loop takes a record when the result is negative. With one master, the usual case,
   nothing shows; with two the port follows the worse, and it listens for ever if
   that one is worse than its own clock.

Behaviour worth knowing that no document contradicts:

* sessions 3 to 8 are accepted but every request in them is refused until the
  receive timeout; a seed of 0 cannot be unlocked with; blank units of a bootable
  image can be programmed later;
* a PTP port that has become FAULTY while a master is recommended is sent to
  UNCALIBRATED by the next pass, without being initialised again;
* announcements of the parent are not stored once it is followed: later decisions
  compare with the first one heard;
* a delay request interval of 0, which may be drawn, stops the timer until the state
  changes; one delay response in 65536 is ignored (`protocol.c:907`: the
  number 0 minus 1 is an `int`);
* `setPTPUsrTime` does not reset the last reading, so the next reading may be
  corrected for a rollover that did not happen; a reading of exactly one second of
  nanoseconds is not carried (`usr_timer.c`, `>` for `>=`);
* after a change of parent, a Follow_Up of the new master completes a Sync of the old one
  if it has the same number (`protocol.c:672`), and the last result of the old one is
  combined with a delay answer of the new one;
* a Sync that the rx task holds when the clock is set is used with its old time, and so
  is an answer to a delay request that was under way then;
* a transmitted network buffer stays at its descriptor until its turn comes again, and
  is lost if it is still being transmitted at the check and no more at the send
  (`NetworkInterface.c:279-281`, `LostBySendOnly`).

## 6. Not modelled

* What `decrypt_msg` does with a frame whose announced length is not its own, and what a
  store to an address that is no flash does to a register of the device, or a load that
  stops the processor.
* Lengths that are not multiples of the write unit (`flash_write` rounds up): what
  the driver and the hardware do with such a write is not in the repository, beyond an
  assertion on alignment. `flash_drv_init` and the cache bits.
* Of the host tool: segments that lie only partly in the application's flash, the
  console. The S-record reader (`srec.cpp`, `srecmem.cpp`) parses text into an array of
  segments that it only appends to, and `vci8_enc` is a batch program; what the device
  sees of both (segments in order, one keystream over all of them, the header) is in
  `ProgHost`.
* Of the PTP daemon: the master states, which this slave-only build never enters
  (`SLAVE_ONLY`), peer delays, management messages, the values of time stamps
  (`PtpTimes` has only which belong together), and the servo's filters, which are
  numerical: there is no promise about them to state over a model.
* Of the network stack: TCP, DHCP and ARP but for the buffers they take, and the
  content of frames.
* CRC-32, RC4 and LFSR32 bit by bit: pure arithmetic on words. The models rely on a
  CRC that tells contents apart, on a keystream that depends on key and position, and on
  an LFSR that is one-to-one.
* Board set-up, the OSIF layer, the FreeRTOS kernel, and the SDK drivers other than the
  program and erase calls of the C55 driver and the Ethernet descriptors: vendor code,
  used here through the behaviour that `src/sample_boot` relies on (priorities, time
  slices, mutexes, timeouts). It makes up most of the repository's lines.

## 7. State of the work

1. `FlashMap`, `DeviceMap`, `DeviceMapProofs` — checked and proved.
2. `FlashDrv`, `BootServer` — checked and proved but for liveness.
3. `ProgHost`, `SafeUpdate`, `BootSystem` — checked; the truth of "success", but for a
   flag lost without an error, and the refinement of `SafeUpdate` proved.
4. `BootFrame` — checked with the real sizes, and proved for any.
5. `UdpBuffers` — checked, and proved but for `PoolRefills`. `NoneLost` is deliberately not promised: the code
   loses buffers in the window that `LostBySendOnly` describes.
6. `PtpQueue`, `PtpNet`, `PtpPort`, `PtpTimes`, `PtpClock` — checked; proved but for liveness.
7. `HwIo` — checked and proved.

Worth doing next: a promise for a network that copies datagrams, as far as the code can
keep one.
