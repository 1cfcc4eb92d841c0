------------------------------ MODULE GalvoSystem ------------------------------
(***************************************************************************)
(* The trajectory master (main.cpp), the bus and the slave together.       *)
(*                                                                         *)
(* The master exchanges one frame per cycle: it puts the outputs on the    *)
(* bus and waits for the same frame to come back with the inputs.  A frame *)
(* may be lost on its way out or back, or come so late that the master has *)
(* given it up; the bus keeps the order.  The master may be killed at any  *)
(* time and started again.                                                 *)
(*                                                                         *)
(* Of the slave there is what decides whether a command arrives: the SM2   *)
(* buffer and its event, PDI_Isr with its two looks at the event, the      *)
(* state machine with the watchdog, and TIM7, which drives the galvo as    *)
(* long as the last command enables it.  EcatEsm, PdiInterrupt and         *)
(* GalvoXY2 have each of them in detail.  A repeated trajectory is one     *)
(* longer trajectory.                                                      *)
(***************************************************************************)
EXTENDS Integers, Sequences

CONSTANTS
  Points,           (* the points of a trajectory                          *)
  Origin,           (* codes (0,0)                                         *)
  SEQ_MOD,          (* the sequence number wraps here (2^16)               *)
  MAX_LOST_FRAMES,  (* opt.max_lost_frames (20)                            *)
  START_TRIES,      (* exchanges in which start_ethercat waits for OP (50) *)
  MAX_EXCHANGES,    (* bound on the exchanges of all runs                  *)
  MAX_IN_FLIGHT     (* bound on the frames on the bus                      *)

Pdo == [point : Points, sequence : 0 .. SEQ_MOD - 1, enable : BOOLEAN]

ASSUME SystemAssumptions ==
  /\ Origin \in Points
  /\ SEQ_MOD \in Nat \ {0}
  /\ MAX_LOST_FRAMES \in Nat \ {0} /\ START_TRIES \in Nat \ {0}
  /\ MAX_EXCHANGES \in Nat /\ MAX_IN_FLIGHT \in Nat

(* The zeroed PDO: the IO map before the first sample, and the stop PDO.   *)
StopPdo == [point |-> Origin, sequence |-> 0, enable |-> FALSE]

(* What is on the bus: process data with the number of their exchange, or  *)
(* a write of AL Control.                                                  *)
Request == {"OP", "INIT"}
Numbered == [number : Nat, pdo : Pdo]
Frame == [request : Request \cup {"none"}, number : Nat, pdo : Pdo]

VARIABLES
  (* the master *)
  master,           (* off, configured, starting, running, stopping *)
  waiting,          (* it has sent a frame and waits for it                *)
  sent,             (* number of exchanges begun                           *)
  sequence,         (* sequence number of the next sample                  *)
  lost_in_row,
  tries,            (* exchanges of start_ethercat that did not find OP    *)
  inputs,           (* the inputs in the IO map                            *)
  (* the bus *)
  bus,              (* frames and requests on their way out                *)
  (* the slave's ESC *)
  control,          (* AL Control, while its event is pending, or "none"   *)
  sm2,              (* SM2 is enabled                                      *)
  buffer,           (* the process data in SM2                             *)
  event,            (* SM2 event; the IRQ line is asserted                 *)
  edge,             (* EXTI3 is pending                                    *)
  tx,               (* the input PDO in SM3                                *)
  (* the slave *)
  state,            (* nAlStatus                                           *)
  bEcatWaitForAlControlRes,
  bEcatFirstOutputsReceived,
  isr,              (* where PDI_Isr is                                    *)
  Obj0x7010,        (* the last output PDO mapped, with its number         *)
  target,           (* what GalvoXY2_SetTarget last stored                 *)
  wire              (* XY2-100 frames are sent                             *)

program == <<master, waiting, sent, sequence, lost_in_row, tries>>
esc == <<sm2, buffer, event, edge>>
machine == <<state, bEcatWaitForAlControlRes, bEcatFirstOutputsReceived>>
galvo == <<Obj0x7010, target, wire>>
slave == <<control, esc, tx, machine, isr, galvo>>
vars == <<program, inputs, bus, slave>>

AlControl(request) == [request |-> request, number |-> 0, pdo |-> StopPdo]
NoInputs == [number |-> 0, sequence |-> 0, enabled |-> FALSE]

Init ==
  /\ master = "off" /\ waiting = FALSE
  /\ sent = 0 /\ sequence = 0 /\ lost_in_row = 0 /\ tries = 0
  /\ inputs = NoInputs
  /\ bus = << >>
  /\ control = "none" /\ sm2 = FALSE
  /\ buffer = [number |-> 0, pdo |-> StopPdo]
  /\ event = FALSE /\ edge = FALSE
  /\ tx = NoInputs
  /\ state = "INIT"
  /\ bEcatWaitForAlControlRes = FALSE /\ bEcatFirstOutputsReceived = FALSE
  /\ isr = "idle"
  /\ Obj0x7010 = [number |-> 0, pdo |-> StopPdo]
  /\ target = StopPdo
  /\ wire = FALSE

-----------------------------------------------------------------------------
(* The master.                                                             *)

(* The slave is in SAFEOP with its Sync Managers set up: the master's      *)
(* library has led it through INIT, where AL_ControlInd stops everything.  *)
StartsSlave ==
  /\ state' = "SAFEOP" /\ sm2' = TRUE /\ control' = "none"
  /\ event' = FALSE
  /\ bEcatWaitForAlControlRes' = FALSE /\ bEcatFirstOutputsReceived' = FALSE

(* start_ethercat up to the check of SAFEOP, in a new process with a       *)
(* zeroed IO map.                                                          *)
Configure ==
  /\ master = "off" /\ bus = << >> /\ isr = "idle" /\ ~edge
  /\ sent < MAX_EXCHANGES
  /\ master' = "configured" /\ waiting' = FALSE
  /\ tries' = 0
  /\ inputs' = NoInputs
  /\ StartsSlave
  /\ UNCHANGED <<sent, sequence, lost_in_row, bus, buffer, edge, tx, isr, galvo>>

(* Process data goes out; the frame is kept until it is back or given up.  *)
SendProcessData(pdo) ==
  /\ ~waiting /\ waiting' = TRUE
  /\ Len(bus) < MAX_IN_FLIGHT
  /\ sent' = sent + 1
  /\ bus' = Append(bus, [request |-> "none", number |-> sent', pdo |-> pdo])
  /\ UNCHANGED <<master, lost_in_row, tries, inputs, slave>>

SendZeroes ==
  /\ master \in {"configured", "starting"}
  /\ SendProcessData(StopPdo)
  /\ UNCHANGED sequence

(* The next sample of run_trajectory, as exchange_pdo sends it. *)
SendSample ==
  /\ master = "running" /\ sent < MAX_EXCHANGES
  /\ \E point \in Points, laser \in BOOLEAN :
       SendProcessData([point |-> point, sequence |-> sequence, enable |-> laser])
  /\ sequence' = (sequence + 1) % SEQ_MOD

(* The samples are used up. *)
EndTrajectory ==
  /\ master = "running" /\ ~waiting
  /\ master' = "stopping"
  /\ UNCHANGED <<waiting, sent, sequence, lost_in_row, tries, inputs, bus, slave>>

(* stop_ethercat, whose result nobody looks at. *)
SendStop ==
  /\ master = "stopping"
  /\ SendProcessData(StopPdo)
  /\ UNCHANGED sequence

(* Faulty variant: the run goes on after the last frame it may lose.       *)
CountLossLate(wkc) ==
  /\ lost_in_row' = IF wkc <= 0 THEN lost_in_row + 1 ELSE 0
  /\ master' = IF wkc <= 0 /\ lost_in_row' > MAX_LOST_FRAMES THEN "stopping" ELSE "running"

(* run_trajectory gives up after too many frames without an answer.        *)
CountLoss(wkc) ==
  /\ lost_in_row' = IF wkc <= 0 THEN lost_in_row + 1 ELSE 0
  /\ master' = IF wkc <= 0 /\ lost_in_row' >= MAX_LOST_FRAMES THEN "stopping" ELSE "running"

(* What follows an exchange; bus' is what is still on its way.             *)
Continue(wkc, onTheWay) ==
  \/ /\ master = "configured" /\ master' = "starting"
     /\ bus' = Append(onTheWay, AlControl("OP"))
     /\ UNCHANGED <<sequence, lost_in_row, tries>>
  \/ /\ master = "starting" /\ bus' = onTheWay
     /\ \/ /\ state = "OP"
           /\ master' = "running" /\ sequence' = 0 /\ lost_in_row' = 0
           /\ UNCHANGED tries
        \/ /\ tries' = tries + 1
           /\ master' = IF tries' < START_TRIES THEN "starting" ELSE "off"
           /\ UNCHANGED <<sequence, lost_in_row>>
  \/ /\ master = "running" /\ CountLoss(wkc) /\ bus' = onTheWay
     /\ UNCHANGED <<sequence, tries>>
  \/ /\ master = "stopping" /\ master' = "off"
     /\ bus' = Append(onTheWay, AlControl("INIT"))
     /\ UNCHANGED <<sequence, lost_in_row, tries>>

(* ecx_receive_processdata gives the frame up; its inputs stay as they are. *)
Timeout ==
  /\ waiting /\ waiting' = FALSE
  /\ Continue(-1, bus)
  /\ UNCHANGED <<sent, inputs, slave>>

(* Ended from outside, or by an exception. *)
Kill ==
  /\ master # "off" /\ master' = "off"
  /\ waiting' = FALSE
  /\ UNCHANGED <<sent, sequence, lost_in_row, tries, inputs, bus, slave>>

Master == SendZeroes \/ SendSample \/ EndTrajectory \/ SendStop \/ Timeout

-----------------------------------------------------------------------------
(* The bus and the slave's ESC.                                            *)

(* The working counter: the ESC counts a write of SM2 twice, a read of SM3 *)
(* once, and neither outside SAFEOP and OP.                                *)
WorkingCounter ==
  CASE state = "INIT" -> 0
    [] state # "INIT" /\ sm2 -> 3
    [] state # "INIT" /\ ~sm2 -> 1

(* The outputs reach SM2 if it is open: a falling edge unless the line was *)
(* asserted already.                                                       *)
WriteOutputs(frame) ==
  IF state # "INIT" /\ sm2
    THEN /\ buffer' = [number |-> frame.number, pdo |-> frame.pdo]
         /\ event' = TRUE
         /\ edge' = (edge \/ ~event)
    ELSE UNCHANGED <<buffer, event, edge>>

(* The answer is in time if the master waits for this very frame.          *)
Answered(frame) == waiting /\ frame.number = sent

(* Process data pass the slave; what comes back are the inputs that were   *)
(* in SM3 when the frame came by.                                          *)
Exchange ==
  /\ bus # << >> /\ Head(bus).request = "none"
  /\ WriteOutputs(Head(bus))
  /\ \/ /\ Answered(Head(bus))
        /\ waiting' = FALSE
        /\ inputs' = IF state = "INIT" THEN inputs ELSE tx
        /\ Continue(WorkingCounter, Tail(bus))
        /\ UNCHANGED sent
     \/ /\ bus' = Tail(bus)
        /\ UNCHANGED <<program, inputs>>
  /\ UNCHANGED <<control, sm2, tx, machine, isr, galvo>>

WriteAlControl ==
  /\ bus # << >> /\ Head(bus).request # "none"
  /\ control' = Head(bus).request
  /\ bus' = Tail(bus)
  /\ UNCHANGED <<program, inputs, esc, tx, machine, isr, galvo>>

Lose ==
  /\ bus # << >>
  /\ bus' = Tail(bus)
  /\ UNCHANGED <<program, inputs, slave>>

Bus == Exchange \/ WriteAlControl \/ Lose

-----------------------------------------------------------------------------
(* The process data interrupt.                                             *)

At(here, next) == isr = here /\ isr' = next

(* Faulty variant: a command with the old sequence number is not new. *)
IsNewBySequence(pdo) == pdo.sequence # target.sequence

IsNew(pdo) ==
  \/ pdo.sequence # target.sequence
  \/ pdo.point # target.point
  \/ pdo.enable # target.enable

(* PDO_OutputMapping and GalvoXY2_SetTarget. *)
MapOutputs ==
  /\ Obj0x7010' = buffer
  /\ target' = IF IsNew(buffer.pdo) THEN buffer.pdo ELSE target

(* The first look at the event: the outputs are read in any state, but     *)
(* mapped in OP only.                                                      *)
ReadOutputs ==
  /\ edge /\ At("idle", "inputs")
  /\ edge' = FALSE /\ event' = FALSE
  /\ bEcatFirstOutputsReceived' = (bEcatFirstOutputsReceived \/ event)
  /\ IF event /\ state = "OP" THEN MapOutputs ELSE UNCHANGED <<Obj0x7010, target>>
  /\ UNCHANGED <<program, inputs, bus, control, sm2, buffer, tx, state,
                 bEcatWaitForAlControlRes, wire>>

(* Faulty variant: the slave confirms what is in SM2. *)
InputPdoOfBuffer ==
  [number |-> buffer.number, sequence |-> buffer.pdo.sequence, enabled |-> wire]

(* APPL_Application: status of the last tick, sequence of the target.      *)
InputPdo ==
  [number |-> Obj0x7010.number, sequence |-> target.sequence, enabled |-> wire]

(* It takes some 3 ms to print a new command before this. *)
WriteInputs ==
  /\ At("inputs", "recheck")
  /\ tx' = InputPdo
  /\ UNCHANGED <<program, inputs, bus, control, esc, machine, galvo>>

(* The second look: outputs that came meanwhile are read and thrown away.  *)
DropOutputs ==
  /\ At("recheck", "ack")
  /\ event' = FALSE
  /\ UNCHANGED <<program, inputs, bus, control, sm2, buffer, edge, tx, machine, galvo>>

ACK_ESC_INT ==
  /\ At("ack", "idle")
  /\ edge' = FALSE
  /\ UNCHANGED <<program, inputs, bus, control, sm2, buffer, event, tx, machine, galvo>>

PDI_Isr == ReadOutputs \/ WriteInputs \/ DropOutputs \/ ACK_ESC_INT

(* TIM7, which PDI_Isr keeps waiting. *)
TimerTick ==
  /\ isr = "idle"
  /\ wire' = target.enable
  /\ UNCHANGED <<program, inputs, bus, control, esc, tx, machine, isr, Obj0x7010, target>>

-----------------------------------------------------------------------------
(* The slave's main loop, which the interrupt keeps waiting.               *)

MainLoopRuns == isr = "idle" /\ ~edge

(* AL_ControlInd stops every handler on the way to INIT; OP is entered     *)
(* when outputs have been received.                                        *)
HandleAlControl ==
  /\ MainLoopRuns
  /\ control # "none" /\ ~bEcatWaitForAlControlRes
  /\ control' = "none"
  /\ \/ /\ control = "INIT"
        /\ state' = "INIT" /\ bEcatFirstOutputsReceived' = FALSE
        /\ sm2' = FALSE /\ event' = FALSE
        /\ UNCHANGED bEcatWaitForAlControlRes
     \/ /\ control = "OP"
        /\ bEcatWaitForAlControlRes' = (state = "SAFEOP")
        /\ UNCHANGED <<state, bEcatFirstOutputsReceived, sm2, event>>
  /\ UNCHANGED <<program, inputs, bus, buffer, edge, tx, isr, galvo>>

(* AL_ControlRes: OP, or back because the time for the transition is over. *)
HandlePending ==
  /\ MainLoopRuns /\ bEcatWaitForAlControlRes
  /\ bEcatWaitForAlControlRes' = FALSE
  /\ \/ bEcatFirstOutputsReceived /\ state' = "OP" /\ UNCHANGED bEcatFirstOutputsReceived
     \/ bEcatFirstOutputsReceived' = FALSE /\ UNCHANGED state
  /\ UNCHANGED <<program, inputs, bus, control, esc, tx, isr, galvo>>

(* Without outputs yet the main loop writes the inputs. *)
RefreshInputs ==
  /\ MainLoopRuns
  /\ state # "INIT" /\ ~bEcatFirstOutputsReceived
  /\ tx' = InputPdo
  /\ UNCHANGED <<program, inputs, bus, control, esc, machine, isr, galvo>>

(* The watchdog has expired: the outputs have to be received anew, and OP  *)
(* ends with SM2 closed.                                                   *)
CheckIfEcatError ==
  /\ MainLoopRuns
  /\ state # "INIT"
  /\ bEcatFirstOutputsReceived' = FALSE
  /\ state' = "SAFEOP"
  /\ sm2' = (sm2 /\ state # "OP")
  /\ event' = (event /\ sm2')
  /\ UNCHANGED <<program, inputs, bus, control, buffer, edge, tx, isr, galvo,
                 bEcatWaitForAlControlRes>>

MainLoop == HandleAlControl \/ HandlePending \/ RefreshInputs

Next ==
  \/ Configure \/ Master \/ Kill \/ Bus
  \/ PDI_Isr \/ TimerTick \/ MainLoop \/ CheckIfEcatError

(* Frames arrive or are lost, and the master's program and the processor   *)
(* go on.  The master may be killed, and need not be started.              *)
Fairness ==
  /\ WF_vars(Master) /\ WF_vars(Bus) /\ WF_vars(PDI_Isr) /\ WF_vars(TimerTick)
  /\ WF_vars(HandleAlControl) /\ WF_vars(HandlePending)

Spec == Init /\ [][Next]_vars /\ Fairness

-----------------------------------------------------------------------------
(* The ranges of the program's, the bus's and the slave's variables. *)
TypeOK ==
  /\ master \in {"off", "configured", "starting", "running", "stopping"}
  /\ sent \in Nat /\ sequence \in 0 .. SEQ_MOD - 1
  /\ lost_in_row \in 0 .. MAX_LOST_FRAMES /\ tries \in 0 .. START_TRIES
  /\ inputs \in [number : Nat, sequence : 0 .. SEQ_MOD - 1, enabled : BOOLEAN]
  /\ tx \in [number : Nat, sequence : 0 .. SEQ_MOD - 1, enabled : BOOLEAN]
  /\ bus \in Seq(Frame)
  /\ control \in Request \cup {"none"}
  /\ buffer \in Numbered /\ Obj0x7010 \in Numbered /\ target \in Pdo
  /\ state \in {"INIT", "SAFEOP", "OP"}
  /\ isr \in {"idle", "inputs", "recheck", "ack"}
  /\ {waiting, sm2, event, edge, bEcatWaitForAlControlRes, bEcatFirstOutputsReceived,
      wire} \subseteq BOOLEAN

(* The galvo's target is the last output PDO the slave mapped, although    *)
(* GalvoXY2_SetTarget passes over commands it takes for old and the        *)
(* sequence number wraps: the stop PDO, with sequence number 0 again, is   *)
(* never taken for a repeated sample.                                      *)
TargetIsLatest == target = Obj0x7010.pdo

(* Commands lost, dropped, late or sent by a new master: what the galvo    *)
(* takes and what the master sees confirmed is a SampleStream.             *)
Stream == INSTANCE SampleStream
            WITH applied <- Obj0x7010.number, acked <- inputs.number
DeliversInOrder == Stream!Spec

(* The galvo is reset to a safe state when the state OP is left: it stops  *)
(* sending frames unless OP is entered again.                              *)
SafeAfterOp == state # "OP" /\ wire ~> ~wire \/ state = "OP"

=============================================================================
