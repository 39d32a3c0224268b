-------------------------------- MODULE HwIo --------------------------------
(***************************************************************************)
(* Digital outputs behind shift registers (src/sample_boot/hwio.c).  A     *)
(* register, here a chip, shows on its outputs what the last rising edge   *)
(* of its chip select latched.  DioWrite, called by any task, changes one  *)
(* bit of the image of a chip and asks for a transfer; SpiMainFunction     *)
(* goes over the chips and carries the transfers out.  Both hold the mutex *)
(* of the chip, but SpiTransfer tests the request before it takes it.      *)
(*                                                                         *)
(* In this image nothing calls SpiInit, SpiMainFunction or                 *)
(* can_set_transciever_mode, the caller of DioWrite: the module checks     *)
(* what the functions keep for whatever tasks call them, however often or  *)
(* seldom, and promises nothing that depends on their being called.        *)
(***************************************************************************)
EXTENDS Naturals

CONSTANTS
  NChips,   \* the number of entries of SpiIoConfig
  Pins,     \* the outputs of a chip
  Callers   \* the tasks that call DioWrite

ASSUME ChipsAssumption == NChips \in Nat \ {0}
ASSUME CallersAssumption == {"nobody", "spi"} \cap Callers = {}

Chips == 0 .. NChips - 1

VARIABLES
  image,    \* spi_io_data_buff: the outputs of each chip that are to be on
  xfer_req, \* per chip
  mutex,    \* its holder: "nobody", "spi" (SpiTransfer) or a caller
  outputs,  \* the outputs of the chip that are on
  spi,      \* the chip that SpiMainFunction has come to, and its next step
  dio,      \* where each caller is in DioWrite, and with what
  wish      \* history: the last value stored for each output

hwVars == <<image, xfer_req, mutex, outputs, spi, dio, wish>>

NoCall == [step |-> "none"]

\* SpiInit has created the mutexes; each chip's first transfer is due.
HwInit ==
  /\ image = [c \in Chips |-> Pins]
  /\ xfer_req = [c \in Chips |-> TRUE]
  /\ mutex = [c \in Chips |-> "nobody"]
  /\ outputs = [c \in Chips |-> {}]
  /\ spi = [chip |-> 0, step |-> "test"]
  /\ dio = [t \in Callers |-> NoCall]
  /\ wish = image

-----------------------------------------------------------------------------
(* SpiTransfer, for one chip after the other.                              *)

At(step) == spi.step = step
Then(step) == spi' = [spi EXCEPT !.step = step]
NextChip == spi' = [chip |-> (spi.chip + 1) % NChips, step |-> "test"]

\* HWIO_ERROR_NOT_REQ, or the mutex is taken next.
TestRequest ==
  /\ At("test")
  /\ IF xfer_req[spi.chip] THEN Then("lock") ELSE NextChip
  /\ UNCHANGED <<image, xfer_req, mutex, outputs, dio, wish>>

SpiLock ==
  /\ At("lock") /\ mutex[spi.chip] = "nobody"
  /\ mutex' = [mutex EXCEPT ![spi.chip] = "spi"]
  /\ Then("transfer")
  /\ UNCHANGED <<image, xfer_req, outputs, dio, wish>>

\* Mutant: the request is withdrawn although it was not carried out.
WithdrawFailed ==
  /\ At("transfer")
  /\ \E shown \in SUBSET Pins : outputs' = [outputs EXCEPT ![spi.chip] = shown]
  /\ xfer_req' = [xfer_req EXCEPT ![spi.chip] = FALSE]
  /\ Then("unlock")
  /\ UNCHANGED <<image, mutex, dio, wish>>

\* The transfer fails, at its start or later.  The request stays; the chip
\* select is toggled all the same and latches whatever has been shifted.
TransferFails ==
  /\ At("transfer")
  /\ \E shown \in SUBSET Pins : outputs' = [outputs EXCEPT ![spi.chip] = shown]
  /\ Then("unlock")
  /\ UNCHANGED <<image, xfer_req, mutex, dio, wish>>

TransferOk ==
  /\ At("transfer")
  /\ outputs' = [outputs EXCEPT ![spi.chip] = image[spi.chip]]
  /\ xfer_req' = [xfer_req EXCEPT ![spi.chip] = FALSE]
  /\ Then("unlock")
  /\ UNCHANGED <<image, mutex, dio, wish>>

SpiUnlock ==
  /\ At("unlock")
  /\ mutex' = [mutex EXCEPT ![spi.chip] = "nobody"]
  /\ NextChip
  /\ UNCHANGED <<image, xfer_req, outputs, dio, wish>>

SpiMainFunction ==
  TestRequest \/ SpiLock \/ TransferFails \/ TransferOk \/ SpiUnlock

-----------------------------------------------------------------------------
(* DioWrite of an output of a chip: the byte is loaded and stored.         *)

In(t, step) == dio[t].step = step
Go(t, step) == dio' = [dio EXCEPT ![t].step = step]

DioWrite(t) ==
  /\ In(t, "none")
  /\ \E c \in Chips, p \in Pins, on \in BOOLEAN :
       dio' = [dio EXCEPT ![t] = [step |-> "lock", chip |-> c, pin |-> p,
                                  on |-> on, byte |-> {}]]
  /\ UNCHANGED <<image, xfer_req, mutex, outputs, spi, wish>>

\* Mutant: the caller does not wait for the mutex.
NoLock(t) ==
  /\ In(t, "lock") /\ Go(t, "load")
  /\ UNCHANGED <<image, xfer_req, mutex, outputs, spi, wish>>

DioLock(t) ==
  /\ In(t, "lock") /\ mutex[dio[t].chip] = "nobody"
  /\ mutex' = [mutex EXCEPT ![dio[t].chip] = t]
  /\ Go(t, "load")
  /\ UNCHANGED <<image, xfer_req, outputs, spi, wish>>

DioLoad(t) ==
  /\ In(t, "load")
  /\ dio' = [dio EXCEPT ![t].step = "store", ![t].byte = image[dio[t].chip]]
  /\ UNCHANGED <<image, xfer_req, mutex, outputs, spi, wish>>

Set(pins, p, on) == IF on THEN pins \cup {p} ELSE pins \ {p}

DioStore(t) ==
  LET d == dio[t] IN
  /\ In(t, "store") /\ Go(t, "request")
  /\ image' = [image EXCEPT ![d.chip] = Set(d.byte, d.pin, d.on)]
  /\ wish' = [wish EXCEPT ![d.chip] = Set(@, d.pin, d.on)]
  /\ UNCHANGED <<xfer_req, mutex, outputs, spi>>

DioRequest(t) ==
  /\ In(t, "request") /\ Go(t, "unlock")
  /\ xfer_req' = [xfer_req EXCEPT ![dio[t].chip] = TRUE]
  /\ UNCHANGED <<image, mutex, outputs, spi, wish>>

\* OSIF_MutexUnlock does nothing for a task that is not the holder.
DioUnlock(t) ==
  /\ In(t, "unlock")
  /\ dio' = [dio EXCEPT ![t] = NoCall]
  /\ mutex' = [mutex EXCEPT ![dio[t].chip] = IF @ = t THEN "nobody" ELSE @]
  /\ UNCHANGED <<image, xfer_req, outputs, spi, wish>>

Writing(t) == DioLock(t) \/ DioLoad(t) \/ DioStore(t) \/ DioRequest(t) \/ DioUnlock(t)

HwNext == SpiMainFunction \/ \E t \in Callers : DioWrite(t) \/ Writing(t)
HwSpec == HwInit /\ [][HwNext]_hwVars

-----------------------------------------------------------------------------
(* Properties.                                                             *)

\* The image of every chip is what the callers last asked of each of its
\* outputs: no write is lost to another one of the same byte.
NoWriteLost == image = wish

\* A chip that has no transfer to wait for shows its image, whatever
\* transfers failed: a failed one leaves its request standing (hwio.c:155-163).
ShownOrPending ==
  \A c \in Chips :
    mutex[c] = "nobody" /\ ~xfer_req[c] => outputs[c] = image[c]
=============================================================================
