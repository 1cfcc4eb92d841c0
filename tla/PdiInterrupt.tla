---------------------------- MODULE PdiInterrupt ----------------------------
(***************************************************************************)
(* An output PDO's way through the slave in OP and SM-synchronous mode:    *)
(* the ESC's SM2 buffer and event, the falling edge of its IRQ line, EXTI3 *)
(* and the NVIC, PDI_Isr (SSC/Src/ecatappl.c) with its two looks at the    *)
(* event, and the acknowledgement after it; and the 100 kHz TIM7 interrupt *)
(* that drives the mirrors and has the same preemption priority.           *)
(*                                                                         *)
(* PDOs are numbered in the order the master writes them; each carries a   *)
(* new sequence number.  The ESC keeps the latest one and asserts its IRQ  *)
(* line as long as the SM2 event is set; reading the buffer takes the      *)
(* event back.                                                             *)
(***************************************************************************)
EXTENDS Integers

CONSTANTS
  MAX_PDO,      (* bound on the PDOs the master writes                     *)
  COUNTER_MOD   (* u16CycleExceededCounter wraps here (2^16)               *)

ASSUME PdiAssumptions ==
  /\ MAX_PDO \in Nat
  /\ COUNTER_MOD \in Nat \ {0}

VARIABLES
  (* the ESC and the interrupt hardware *)
  pdo,          (* number of the PDO in the SM2 buffer                     *)
  event,        (* SM2 event; the IRQ line is asserted                     *)
  exti,         (* pending bit of EXTI line 3                              *)
  nvic,         (* EXTI3 is pending in the NVIC                            *)
  tim7,         (* TIM7 is pending in the NVIC                             *)
  (* the slave *)
  isr,          (* where the EXTI3 interrupt is                            *)
  applied,      (* number of the PDO given to GalvoXY2_SetTarget           *)
  echo,         (* LastSequence in the input PDO                           *)
  u16CycleExceededCounter,
  u8SyncError,
  (* history *)
  lost          (* TIM7 expired while it was still pending                 *)

Phase == {"idle", "entered", "check", "print", "inputs", "recheck", "drop",
          "error", "ack"}

hardware == <<pdo, event, exti, nvic>>
timer == <<tim7, lost>>
report == <<u16CycleExceededCounter, u8SyncError>>
vars == <<hardware, timer, report, isr, applied, echo>>

Init ==
  /\ pdo = 0 /\ applied = 0 /\ echo = 0
  /\ event = FALSE /\ exti = FALSE /\ nvic = FALSE
  /\ tim7 = FALSE /\ lost = FALSE
  /\ isr = "idle"
  /\ u16CycleExceededCounter = 0 /\ u8SyncError = FALSE

-----------------------------------------------------------------------------
(* The master writes outputs: an edge only if the line was not asserted.   *)
MasterWrites ==
  /\ pdo < MAX_PDO
  /\ pdo' = pdo + 1
  /\ event' = TRUE
  /\ exti' = (exti \/ ~event)
  /\ nvic' = (nvic \/ (~event /\ ~exti))
  /\ UNCHANGED <<timer, report, isr, applied, echo>>

At(here, next) == isr = here /\ isr' = next

(* Faulty variant: the handler clears the line before the library looks.   *)
EXTI3_IRQHandlerClears ==
  /\ nvic /\ At("idle", "entered")
  /\ nvic' = FALSE /\ exti' = FALSE
  /\ UNCHANGED <<pdo, event, timer, report, applied, echo>>

(* The NVIC enters the interrupt. *)
EXTI3_IRQHandler ==
  /\ nvic /\ At("idle", "entered")
  /\ nvic' = FALSE
  /\ UNCHANGED <<pdo, event, exti, timer, report, applied, echo>>

(* Nothing to do unless the line is pending, which is cleared at once. *)
HAL_GPIO_EXTI_IRQHandler ==
  /\ At("entered", IF exti THEN "check" ELSE "idle")
  /\ exti' = FALSE
  /\ UNCHANGED <<pdo, event, nvic, timer, report, applied, echo>>

(* PDI_Isr looks at the event and reads the outputs, PDO_OutputMapping; a  *)
(* new sequence number is printed on the serial line.                      *)
ReadOutputs ==
  /\ At("check", IF event /\ pdo # applied THEN "print" ELSE "inputs")
  /\ applied' = IF event THEN pdo ELSE applied
  /\ event' = FALSE
  /\ UNCHANGED <<pdo, exti, nvic, timer, report, echo>>

(* printf waits for every character to leave the UART. *)
PrintOutputs ==
  /\ At("print", "inputs")
  /\ UNCHANGED <<hardware, timer, report, applied, echo>>

(* Faulty variant: the answer is taken from the buffer. *)
WriteInputsFromBuffer ==
  /\ At("inputs", "recheck")
  /\ echo' = pdo
  /\ UNCHANGED <<hardware, timer, report, applied>>

(* ECAT_Application and PDO_InputMapping answer with the sequence number.  *)
WriteInputs ==
  /\ At("inputs", "recheck")
  /\ echo' = applied
  /\ UNCHANGED <<hardware, timer, report, applied>>

(* Faulty variants: a cycle that was too long is not counted; the counter  *)
(* is decremented, as u16SmEventMissedCounter is.                          *)
CheckCycleUncounted ==
  /\ At("recheck", IF event THEN "drop" ELSE "error")
  /\ UNCHANGED <<hardware, timer, report, applied, echo>>

CheckCycleDecrement ==
  /\ At("recheck", IF event THEN "drop" ELSE "error")
  /\ u16CycleExceededCounter' = u16CycleExceededCounter - (IF event THEN 1 ELSE 0)
  /\ UNCHANGED <<hardware, timer, u8SyncError, applied, echo>>

(* The second look: an event means the cycle was too long. *)
CheckCycle ==
  /\ At("recheck", IF event THEN "drop" ELSE "error")
  /\ u16CycleExceededCounter' = IF event THEN (u16CycleExceededCounter + 1) % COUNTER_MOD
                                ELSE u16CycleExceededCounter
  /\ UNCHANGED <<hardware, timer, u8SyncError, applied, echo>>

(* The outputs are read to acknowledge the event, and thrown away. *)
DropOutputs ==
  /\ At("drop", "error")
  /\ event' = FALSE
  /\ UNCHANGED <<pdo, exti, nvic, timer, report, applied, echo>>

COE_UpdateSyncErrorStatus ==
  /\ At("error", "ack")
  /\ u8SyncError' = (u16CycleExceededCounter > 0)
  /\ UNCHANGED <<hardware, timer, u16CycleExceededCounter, applied, echo>>

(* Faulty variant: the NVIC's pending bit is cleared instead. *)
ACK_ESC_INTNvic ==
  /\ At("ack", "idle")
  /\ nvic' = FALSE
  /\ UNCHANGED <<pdo, event, exti, timer, report, applied, echo>>

(* ACK_ESC_INT after PDI_Isr: the line is cleared a second time. *)
ACK_ESC_INT ==
  /\ At("ack", "idle")
  /\ exti' = FALSE
  /\ UNCHANGED <<pdo, event, nvic, timer, report, applied, echo>>

Isr ==
  \/ EXTI3_IRQHandler \/ HAL_GPIO_EXTI_IRQHandler \/ ReadOutputs \/ PrintOutputs
  \/ WriteInputs \/ CheckCycle \/ DropOutputs \/ COE_UpdateSyncErrorStatus \/ ACK_ESC_INT

-----------------------------------------------------------------------------
(* Ten microseconds are over.  A printf takes some 3 ms; the rest of the   *)
(* interrupt is assumed to take less than one period, which only hides     *)
(* losses.                                                                 *)
Tim7Period ==
  /\ tim7 => isr = "print"
  /\ tim7' = TRUE
  /\ lost' = (lost \/ tim7)
  /\ UNCHANGED <<hardware, report, isr, applied, echo>>

(* EXTI3 has the lower number, so it goes first. *)
TIM7_IRQHandler ==
  /\ tim7 /\ isr = "idle" /\ ~nvic
  /\ tim7' = FALSE
  /\ UNCHANGED <<hardware, lost, report, isr, applied, echo>>

Next == MasterWrites \/ Isr \/ Tim7Period \/ TIM7_IRQHandler

(* The processor goes on with the interrupt it is in. *)
Spec == Init /\ [][Next]_vars /\ WF_vars(Isr) /\ WF_vars(TIM7_IRQHandler)

-----------------------------------------------------------------------------
(* The ranges of the registers, flags and numbers. *)
TypeOK ==
  /\ pdo \in 0 .. MAX_PDO /\ applied \in 0 .. MAX_PDO /\ echo \in 0 .. MAX_PDO
  /\ {event, exti, nvic, tim7, lost, u8SyncError} \subseteq BOOLEAN
  /\ isr \in Phase
  /\ u16CycleExceededCounter \in 0 .. COUNTER_MOD - 1

(* The sequence number the master gets back is that of a target the        *)
(* interpolator has, whatever arrived during the interrupt.                *)
EchoConfirms == echo <= applied /\ (isr \in {"idle", "entered"} => echo = applied)

(* If outputs are gone from the ESC and never reached the interpolator,    *)
(* the slave reports a sync error.                                         *)
LossIsReported ==
  isr = "idle" /\ ~event /\ applied # pdo => u8SyncError

(* Between interrupts a pending EXTI line is pending in the NVIC as well:  *)
(* no edge waits for an entry that only another edge would bring.          *)
PendingIsEntered == isr = "idle" /\ exti => nvic

(* Outputs whose edge is still latched when the interrupt is idle are read. *)
LatchedIsServed == isr = "idle" /\ event /\ exti ~> ~event

(* Every SM2 event is served. *)
EventServed == event ~> ~event

(* Every period of TIM7 gets its XY2-100 frame. *)
EveryPeriodHasFrame == ~lost

=============================================================================
