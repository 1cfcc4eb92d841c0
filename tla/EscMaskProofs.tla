---------------------------- MODULE EscMaskProofs ----------------------------
(***************************************************************************)
(* Theorems about EscMask for every period of the run LED.                 *)
(***************************************************************************)
EXTENDS EscMask, TLAPS

(* Which mask is set where, and who runs under it.  EXTI3's enable bit is  *)
(* certain only when TIM2 has not just cleared it, and in the main loop's  *)
(* block only until TIM2 has set it again.                                 *)
Masks ==
  /\ primask <=> main = "register"
  /\ tim2 # "idle" => ~primask
  /\ pdi # "idle" => ~primask
  /\ tim2 \in {"idle", "disable"} /\ ~InBlock => enabled
  /\ tim2 \in {"timestamp", "toggle"} => enabled
  /\ InBlock /\ ~reopened => ~enabled
  /\ InBlock /\ pdi # "idle" => reopened

IInv == TypeOK /\ Masks /\ MaskedAccessWhole

-----------------------------------------------------------------------------
LEMMA InitInvariant == Init => IInv
<1> SUFFICES ASSUME Init PROVE IInv
  OBVIOUS
<1>1. number_led_tick \in 0 .. LED_TICKS
  BY MaskAssumptions DEF Init
<1>2. {enabled, primask, bEcatFirstOutputsReceived, reopened} \subseteq BOOLEAN
  BY DEF Init
<1>3. TypeOK
  BY <1>1, <1>2 DEF Init, TypeOK
<1>4. Masks /\ MaskedAccessWhole
  BY DEF Init, Masks, MaskedAccessWhole, InBlock
<1> QED BY <1>3, <1>4 DEF IInv

(* The interrupt hardware and the two interrupts. *)
LEMMA InterruptsKeep == IInv /\ ((\E i \in Interrupt : Raise(i)) \/ Handlers) => IInv'
<1> SUFFICES ASSUME IInv, (\E i \in Interrupt : Raise(i)) \/ Handlers PROVE IInv'
  OBVIOUS
<1> USE DEF IInv, TypeOK, Masks, MaskedAccessWhole, InBlock, Access
<1>1. ASSUME NEW i \in Interrupt, Raise(i) PROVE IInv'
  BY <1>1 DEF Raise
<1>2. CASE EnterExti3
  BY <1>2 DEF EnterExti3, TakesExti3
<1>3. CASE PDI_Isr
  BY <1>3 DEF PDI_Isr
<1>4. CASE EnterTim2
  BY <1>4 DEF EnterTim2, TakesTim2
<1>5. CASE DC_CheckWatchdog
  <2>1. CASE Tim2Step("disable", "watchdog", FALSE) /\ UNCHANGED number_led_tick
    BY <2>1 DEF Tim2Step, Tim2Runs
  <2>2. CASE Tim2Step("watchdog", "timestamp", TRUE) /\ UNCHANGED number_led_tick
    BY <2>2 DEF Tim2Step, Tim2Runs
  <2> QED BY <1>5, <2>1, <2>2 DEF DC_CheckWatchdog
<1>6. CASE EndCheckTimer
  BY <1>6 DEF EndCheckTimer, Tim2Step, Tim2Runs
<1>7. CASE ToggleLed
  <2>1. number_led_tick' \in 0 .. LED_TICKS
    BY <1>7, MaskAssumptions DEF ToggleLed
  <2> QED BY <1>7, <2>1 DEF ToggleLed, Tim2Step, Tim2Runs
<1> QED BY <1>1, <1>2, <1>3, <1>4, <1>5, <1>6, <1>7 DEF Handlers, ESC_TIME_ISR

(* The main loop, which runs only when no interrupt does. *)
LEMMA MainLoopKeeps == IInv /\ MainLoop => IInv'
<1> SUFFICES ASSUME IInv, MainLoop PROVE IInv'
  OBVIOUS
<1> USE DEF IInv, TypeOK, Masks, MaskedAccessWhole, InBlock, Access, MainStep, MainRuns
<1>1. CASE CheckApplication
  BY <1>1 DEF CheckApplication
<1>2. CASE DisableEscInt
  BY <1>2 DEF DisableEscInt
<1>3. CASE PDO_InputMapping
  BY <1>3 DEF PDO_InputMapping
<1>4. CASE EnableEscInt
  BY <1>4 DEF EnableEscInt
<1>5. CASE BeginAccess
  BY <1>5 DEF BeginAccess
<1>6. CASE EndAccess
  BY <1>6 DEF EndAccess
<1>7. CASE CheckIfEcatError
  BY <1>7 DEF CheckIfEcatError
<1> QED BY <1>1, <1>2, <1>3, <1>4, <1>5, <1>6, <1>7 DEF MainLoop

LEMMA Invariance == Spec => []IInv
<1>1. IInv /\ UNCHANGED vars => IInv'
  BY DEF vars, IInv, TypeOK, Masks, MaskedAccessWhole, InBlock
<1> QED BY <1>1, InitInvariant, InterruptsKeep, MainLoopKeeps, PTL DEF Spec, Next

-----------------------------------------------------------------------------
(* The masks, flags and counters keep their ranges: EscMask's type         *)
(* invariant; the LED counter is reset in time.                            *)
THEOREM TypeCorrect == Spec => []TypeOK
<1>1. IInv => TypeOK
  BY DEF IInv
<1> QED BY <1>1, Invariance, PTL

(* TIM2's two masks, which end enabled whatever they began with, and the   *)
(* main loop's never add up to an EXTI3 that stays disabled.               *)
THEOREM EscIntComesBack == Spec => []NeverLeftMasked
<1>1. IInv => NeverLeftMasked
  BY DEF IInv, TypeOK, Masks, NeverLeftMasked, InBlock
<1> QED BY <1>1, Invariance, PTL

(* An access of HW_EscRead or HW_EscWrite is never broken by PDI_Isr's     *)
(* access to the SPI, although TIM2 enables EXTI3 under it: PRIMASK is set *)
(* exactly there (el9800hw.c:466-511, 590-638).                            *)
THEOREM MaskedAccess == Spec => []MaskedAccessWhole
<1>1. IInv => MaskedAccessWhole
  BY DEF IInv
<1> QED BY <1>1, Invariance, PTL

(* If PDI_Isr breaks an access of the main loop, TIM2 has ended the block  *)
(* of MainLoop before its ENABLE_ESC_INT: that the masks do not nest is    *)
(* the only reason (ecatappl.c:804-814, el9800hw.c:768-777).               *)
THEOREM BlockEndedByTim2 == Spec => CutOnlyByTim2
<1>1. IInv /\ [Next]_vars => [cut' # cut => InBlock /\ reopened]_vars
  <2> SUFFICES ASSUME IInv, Next, cut' # cut  PROVE  InBlock /\ reopened
    BY DEF vars
  <2>1. PDI_Isr
    BY DEF Next, Raise, Handlers, EnterExti3, EnterTim2, ESC_TIME_ISR,
           DC_CheckWatchdog, EndCheckTimer, ToggleLed, Tim2Step, MainLoop,
           CheckApplication, DisableEscInt, PDO_InputMapping, EnableEscInt,
           BeginAccess, EndAccess, CheckIfEcatError, MainStep
  <2>2. pdi # "idle" /\ main \in Access
    BY <2>1 DEF PDI_Isr
  <2> QED  BY <2>2 DEF IInv, Masks, InBlock, Access
<1> QED BY <1>1, Invariance, PTL DEF Spec, CutOnlyByTim2

=============================================================================
