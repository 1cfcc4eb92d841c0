------------------------------- MODULE EscMask -------------------------------
(***************************************************************************)
(* Who may interrupt whom while the ESC is accessed over SPI.  Three       *)
(* contexts share the SPI: the main loop, the TIM2 interrupt of every      *)
(* millisecond and, above both, EXTI3 with PDI_Isr.  Two masks protect     *)
(* them, and neither nests: DISABLE_ESC_INT/ENABLE_ESC_INT write EXTI3's   *)
(* enable bit in the NVIC, DISABLE_AL_EVENT_INT/ENABLE_AL_EVENT_INT write  *)
(* PRIMASK.                                                                *)
(*                                                                         *)
(* The slave is in SAFEOP or OP in SM-synchronous mode.  One register      *)
(* access stands for the many of a round of ECAT_Main, and one for those   *)
(* of PDO_InputMapping.                                                    *)
(***************************************************************************)
EXTENDS Integers

CONSTANT LED_TICKS  (* milliseconds between toggles of the run LED (500)   *)

ASSUME MaskAssumptions == LED_TICKS \in Nat

VARIABLES
  main,             (* where the main loop is                              *)
  tim2,             (* where the TIM2 interrupt is                         *)
  pdi,              (* where the EXTI3 interrupt is                        *)
  enabled,          (* EXTI3 is enabled in the NVIC                        *)
  primask,          (* all interrupts are masked                           *)
  pending,          (* interrupts pending in the NVIC                      *)
  bEcatFirstOutputsReceived,
  number_led_tick,
  (* history *)
  reopened,         (* TIM2 has enabled EXTI3 since DISABLE_ESC_INT        *)
  cut               (* accesses of the main loop that PDI_Isr has broken   *)

Interrupt == {"EXTI3", "TIM2"}

(* The places of the main loop in the middle of an SPI access: the AL event *)
(* register read by PDO_InputMapping, the input PDO it writes, and any      *)
(* register in HW_EscRead or HW_EscWrite.                                   *)
Access == {"event", "inputs", "register"}

(* The main loop is between its DISABLE_ESC_INT and its ENABLE_ESC_INT.    *)
InBlock == main \in {"application", "event", "inputs", "unmask"}

vars == <<main, tim2, pdi, enabled, primask, pending, bEcatFirstOutputsReceived,
          number_led_tick, reopened, cut>>

Init ==
  /\ main = "check" /\ tim2 = "idle" /\ pdi = "idle"
  /\ enabled = TRUE /\ primask = FALSE /\ pending = {}
  /\ bEcatFirstOutputsReceived = FALSE
  /\ number_led_tick = 0
  /\ reopened = FALSE /\ cut = {}

-----------------------------------------------------------------------------
(* The interrupt hardware: EXTI3 has priority 1, TIM2 priority 2.          *)

Raise(i) ==
  /\ pending' = pending \cup {i}
  /\ UNCHANGED <<main, tim2, pdi, enabled, primask, bEcatFirstOutputsReceived,
                 number_led_tick, reopened, cut>>

TakesExti3 == "EXTI3" \in pending /\ enabled /\ ~primask /\ pdi = "idle"
TakesTim2 ==
  "TIM2" \in pending /\ ~primask /\ pdi = "idle" /\ tim2 = "idle" /\ ~TakesExti3

(* A context runs when nothing above it runs or is about to run.           *)
MainRuns == pdi = "idle" /\ tim2 = "idle" /\ ~TakesExti3 /\ ~TakesTim2
Tim2Runs == pdi = "idle" /\ ~TakesExti3

-----------------------------------------------------------------------------
(* EXTI3: PDI_Isr, whose first access to the ESC deselects the SPI to      *)
(* break off any other access.                                             *)

EnterExti3 ==
  /\ TakesExti3
  /\ pdi' = "access"
  /\ pending' = pending \ {"EXTI3"}
  /\ UNCHANGED <<main, tim2, enabled, primask, bEcatFirstOutputsReceived,
                 number_led_tick, reopened, cut>>

PDI_Isr ==
  /\ pdi = "access"
  /\ pdi' = "idle"
  /\ bEcatFirstOutputsReceived' = TRUE
  /\ cut' = cut \cup ({main} \cap Access)
  /\ UNCHANGED <<main, tim2, enabled, primask, pending, number_led_tick,
                 reopened>>

-----------------------------------------------------------------------------
(* TIM2: ESC_TIME_ISR.                                                     *)

EnterTim2 ==
  /\ TakesTim2
  /\ tim2' = "disable"
  /\ pending' = pending \ {"TIM2"}
  /\ UNCHANGED <<main, pdi, enabled, primask, bEcatFirstOutputsReceived,
                 number_led_tick, reopened, cut>>

Tim2Step(here, next, enable) ==
  /\ Tim2Runs
  /\ tim2 = here /\ tim2' = next
  /\ enabled' = enable
  /\ reopened' = (reopened \/ (enable /\ ~enabled))
  /\ UNCHANGED <<main, pdi, primask, pending, bEcatFirstOutputsReceived, cut>>

(* Faulty variant: the LED counter is never reset. *)
ToggleLedForEver ==
  /\ Tim2Step("toggle", "idle", enabled)
  /\ number_led_tick' = number_led_tick + 1

(* The run LED, after the interrupt has been enabled again. *)
ToggleLed ==
  /\ Tim2Step("toggle", "idle", enabled)
  /\ number_led_tick' =
       IF number_led_tick >= LED_TICKS THEN 0 ELSE number_led_tick + 1

(* Faulty variant: an early return leaves the interrupt disabled. *)
DC_CheckWatchdogReturns ==
  \/ Tim2Step("disable", "watchdog", FALSE) /\ UNCHANGED number_led_tick
  \/ Tim2Step("watchdog", "toggle", FALSE) /\ UNCHANGED number_led_tick

(* DC_CheckWatchdog, called from ECAT_CheckTimer, has a mask of its own.   *)
DC_CheckWatchdog ==
  \/ Tim2Step("disable", "watchdog", FALSE) /\ UNCHANGED number_led_tick
  \/ Tim2Step("watchdog", "timestamp", TRUE) /\ UNCHANGED number_led_tick

(* The rest of ECAT_CheckTimer and the end of the handler's own mask.      *)
EndCheckTimer == Tim2Step("timestamp", "toggle", TRUE) /\ UNCHANGED number_led_tick

ESC_TIME_ISR == DC_CheckWatchdog \/ EndCheckTimer \/ ToggleLed

-----------------------------------------------------------------------------
(* The main loop.                                                          *)

MainStep(here, next) ==
  /\ MainRuns
  /\ main = here /\ main' = next
  /\ UNCHANGED <<tim2, pdi, pending, number_led_tick, cut>>

(* Without an SM event yet the application runs here, not in PDI_Isr.      *)
CheckApplication ==
  /\ MainStep("check", IF bEcatFirstOutputsReceived THEN "ecat" ELSE "mask")
  /\ UNCHANGED <<enabled, primask, bEcatFirstOutputsReceived, reopened>>

(* Faulty variant: EXTI3 is not masked. *)
DisableEscIntMissing ==
  /\ MainStep("mask", "application")
  /\ reopened' = FALSE
  /\ UNCHANGED <<enabled, primask, bEcatFirstOutputsReceived>>

DisableEscInt ==
  /\ MainStep("mask", "application")
  /\ enabled' = FALSE /\ reopened' = FALSE
  /\ UNCHANGED <<primask, bEcatFirstOutputsReceived>>

(* ECAT_Application, then PDO_InputMapping: it reads the AL event register *)
(* (and the system time, while the master measures) and writes the input   *)
(* PDO, with the functions for interrupts, which do not set PRIMASK.       *)
PDO_InputMapping ==
  /\ \/ MainStep("application", "event")
     \/ MainStep("event", "inputs")
     \/ MainStep("inputs", "unmask")
  /\ UNCHANGED <<enabled, primask, bEcatFirstOutputsReceived, reopened>>

EnableEscInt ==
  /\ MainStep("unmask", "ecat")
  /\ enabled' = TRUE
  /\ UNCHANGED <<primask, bEcatFirstOutputsReceived, reopened>>

(* Faulty variant: the access is masked against EXTI3 only. *)
BeginAccessEscOnly ==
  /\ MainStep("ecat", "register")
  /\ enabled' = FALSE
  /\ UNCHANGED <<primask, bEcatFirstOutputsReceived, reopened>>

(* HW_EscRead and HW_EscWrite mask everything around each access.          *)
BeginAccess ==
  /\ MainStep("ecat", "register")
  /\ primask' = TRUE
  /\ UNCHANGED <<enabled, bEcatFirstOutputsReceived, reopened>>

(* Faulty variant: PRIMASK stays set. *)
EndAccessMasked ==
  /\ MainStep("register", "error")
  /\ UNCHANGED <<primask, enabled, bEcatFirstOutputsReceived, reopened>>

EndAccess ==
  /\ MainStep("register", "error")
  /\ primask' = FALSE
  /\ UNCHANGED <<enabled, bEcatFirstOutputsReceived, reopened>>

(* CheckIfEcatError: when the watchdog has expired in SAFEOP or OP the     *)
(* outputs have to be received anew.                                       *)
CheckIfEcatError ==
  /\ MainStep("error", "check")
  /\ bEcatFirstOutputsReceived' \in {bEcatFirstOutputsReceived, FALSE}
  /\ UNCHANGED <<enabled, primask, reopened>>

MainLoop ==
  \/ CheckApplication \/ DisableEscInt \/ PDO_InputMapping \/ EnableEscInt
  \/ BeginAccess \/ EndAccess \/ CheckIfEcatError

Handlers == EnterExti3 \/ PDI_Isr \/ EnterTim2 \/ ESC_TIME_ISR

Next == (\E i \in Interrupt : Raise(i)) \/ Handlers \/ MainLoop

(* The processor never stops; the interrupt sources may.                   *)
Spec == Init /\ [][Next]_vars /\ WF_vars(Handlers \/ MainLoop)

-----------------------------------------------------------------------------
(* The ranges of the masks, flags and counters. *)
TypeOK ==
  /\ main \in Access \cup
       {"check", "mask", "application", "unmask", "ecat", "error"}
  /\ tim2 \in {"idle", "disable", "watchdog", "timestamp", "toggle"}
  /\ pdi \in {"idle", "access"}
  /\ {enabled, primask, bEcatFirstOutputsReceived, reopened} \subseteq BOOLEAN
  /\ pending \subseteq Interrupt
  /\ number_led_tick \in 0 .. LED_TICKS
  /\ cut \subseteq Access

(* Although the masks do not nest, EXTI3 is never left disabled: whenever  *)
(* TIM2 is done and the main loop is past its own mask it is enabled.      *)
NeverLeftMasked == tim2 = "idle" /\ ~InBlock => enabled

(* Whatever TIM2 does to EXTI3's enable bit, PDI_Isr never breaks an access *)
(* of HW_EscRead or HW_EscWrite (el9800hw.c:466-511, 590-638).              *)
MaskedAccessWhole == "register" \notin cut

(* PDI_Isr breaks an access of the main loop only where TIM2 has ended the *)
(* block of MainLoop early (ecatappl.c:804-814, el9800hw.c:768-777): the   *)
(* missing nesting is the one reason, the block itself is in place.        *)
CutOnlyByTim2 == [][cut' # cut => InBlock /\ reopened]_vars

(* No register access of the main loop is ever broken, as the comment at   *)
(* el9800hw.c:468-472 asks: a broken read would reset the Sync Manager.    *)
(* The code violates it in the block of MainLoop.                          *)
RegisterAccessWhole == cut \cap {"event", "register"} = {}

(* A pending EXTI3 is entered, however often the masks are set.            *)
PdiEntered == "EXTI3" \in pending ~> pdi = "access"

=============================================================================
