------------------------------- MODULE MCParts -------------------------------
(***************************************************************************)
(* Eight parts of the image that share no state, each checked on its own:  *)
(* the first state names the part that moves, the others keep still.  Six  *)
(* are state machines, two (the tables of flash addresses and the PTP      *)
(* daemon's clock) arithmetic more than control.                           *)
(***************************************************************************)
EXTENDS PtpNet, MCPtpPort, PtpTimes, HwIo, UdpBuffers, PtpClock, BootFrame,
        MCDeviceMap

VARIABLE part

machineVars == <<netVars, portVars, hwVars, bufVars>>
tableVars   == <<clockVars, vars>>
othersVars  == <<frameVars, timeVars, tableVars>>
partsVars   == <<machineVars, othersVars, part>>

PartsInit ==
  /\ NetInit /\ PortInit /\ HwInit /\ BufInit /\ FrameInit /\ TimesInit
  /\ ClockInit /\ Init
  /\ part \in {"net", "port", "hwio", "buffers", "frame", "times", "clock", "map"}
  /\ part # "map" => addr = 0
  /\ part # "times" => master = CHOOSE m \in Senders : TRUE

PartsNext ==
  \/ part = "net" /\ NetNext
       /\ UNCHANGED <<portVars, hwVars, bufVars, othersVars, part>>
  \/ part = "port" /\ doState
       /\ UNCHANGED <<netVars, hwVars, bufVars, othersVars, part>>
  \/ part = "hwio" /\ HwNext
       /\ UNCHANGED <<netVars, portVars, bufVars, othersVars, part>>
  \/ part = "buffers" /\ BufNext
       /\ UNCHANGED <<netVars, portVars, hwVars, othersVars, part>>
  \/ part = "frame" /\ FrameNext /\ UNCHANGED <<machineVars, timeVars, tableVars, part>>
  \/ part = "times" /\ TimesNext /\ UNCHANGED <<machineVars, frameVars, tableVars, part>>
  \/ part = "clock" /\ ClockNext
       /\ UNCHANGED <<machineVars, frameVars, timeVars, vars, part>>
  \/ part = "map" /\ Next
       /\ UNCHANGED <<machineVars, frameVars, timeVars, clockVars, part>>

\* The fairness of NetFair, PortFair and BufFair.  No behaviour leaves its
\* part, so that one condition can speak of several of them.
moving ==
  CASE part = "net" -> netVars [] part = "port" -> portVars
    [] part = "hwio" -> hwVars [] part = "buffers" -> bufVars
    [] part = "frame" -> frameVars [] part = "times" -> timeVars
    [] part = "clock" -> clockVars [] part = "map" -> vars
OneStep ==
  /\ UNCHANGED part
  /\ \/ part = "net" /\ Receiving
     \/ part = "port" /\ doState
     \/ part = "buffers" /\ Finishing
OtherStep ==
  /\ UNCHANGED part
  /\ \/ part = "net" /\ netRecvEvent
     \/ part = "buffers" /\ FreeRTOS_recvfrom

PartsSpec ==
  /\ PartsInit /\ [][PartsNext]_partsVars
  /\ WF_moving(OneStep)
  /\ WF_moving(OtherStep)
  /\ WF_bufVars(part = "buffers" /\ FreeRTOS_ReleaseUDPPayloadBuffer)
  /\ WF_bufVars(part = "buffers" /\ (HandOver \/ TxEventLost))

-----------------------------------------------------------------------------
(* Properties of the modules that promise what a part comes to do.         *)

\* The port comes to follow a master that goes on (ComesToFollow of PtpPort).
PortFollows == part = "port" => ComesToFollow
=============================================================================
